---- MODULE Spec2Model ----
(***************************************************************************)
(* Metrics acquisition and normalisation layer of the System Info          *)
(* Dashboard main process (src/src/main.ts): the ipcMain handlers, the     *)
(* text parsers they apply to the output of the external commands, the CPU *)
(* tick arithmetic and the uptime formatter; and fetchAllData of the       *)
(* dashboard (src/src/system-info-dashboard.tsx), which issues its three   *)
(* requests as one Promise.all batch.                                      *)
(*                                                                         *)
(* Text is a sequence of one-character strings, so that split, trim,       *)
(* includes, replace, parseInt and parseFloat are computed character by    *)
(* character as the JavaScript built-ins compute them.                     *)
(***************************************************************************)
EXTENDS Integers, Sequences, FiniteSets

VARIABLES
    platform,       \* process.platform of the main process
    pc,             \* position of the handler being run: "idle", "exec" (awaiting the
                    \* child), "returned", "failed" (returned from a catch block),
                    \* "rejected" (an exception left the handler)
    channel,        \* ipc channel of the handler being run, "none" when idle
    command,        \* command line handed to execAsync, "" when none
    parseFunction,  \* parser bound by the handler before the await: "win32", "posix", "none"
    nchunks,        \* number of data chunks the child process has written
    stdout,         \* text buffered from the child process
    cpus,           \* os.cpus() as read by the handler: per core [user, nice, sys, idle, irq]
    uptime,         \* os.uptime() as read by the handler, in seconds
    result,         \* value the handler resolves with
    spawned,        \* child processes spawned by the handler being run
    calls,          \* the fetchAllData calls of the dashboard, in the order they started:
                    \* the three requests of each and how far the call has come
    dashboard,      \* React state of SystemInfoDashboard
    monitor         \* React state of SystemMonitor, with its fetchStats calls in the
                    \* order they started

\* the state of the main process
main ==
    <<platform, pc, channel, command, parseFunction, nchunks, stdout, cpus, uptime, result,
      spawned>>

\* the state of the renderer
renderer == <<calls, dashboard, monitor>>

vars == <<main, renderer>>

---------------------------------------------------------------------------
(* Bounds of the model *)

MaxChunks == 2
BurstLen == 51
MaxCores == 2
MaxDays == 3
MaxFetches == 2
MaxTicks == 5

---------------------------------------------------------------------------
(* JavaScript string and number built-ins *)

Min(S) == CHOOSE x \in S : \A y \in S : x <= y

Max(S) == CHOOSE x \in S : \A y \in S : x >= y

WhiteSpace == {" ", "\t", "\n", "\r", "\f"}

DecDigits == <<"0", "1", "2", "3", "4", "5", "6", "7", "8", "9">>

HexDigits == <<"0", "1", "2", "3", "4", "5", "6", "7", "8", "9", "a", "b", "c", "d", "e", "f">>

HexUpper == <<"0", "1", "2", "3", "4", "5", "6", "7", "8", "9", "A", "B", "C", "D", "E", "F">>

IsDigit(c, radix) ==
    \E i \in 1..radix : (IF radix = 16 THEN HexDigits[i] = c \/ HexUpper[i] = c ELSE DecDigits[i] = c)

DigitVal(c, radix) ==
    (CHOOSE i \in 1..radix :
        IF radix = 16 THEN HexDigits[i] = c \/ HexUpper[i] = c ELSE DecDigits[i] = c) - 1

RECURSIVE Pow(_, _)
Pow(b, e) == IF e = 0 THEN 1 ELSE b * Pow(b, e - 1)

RECURSIVE Gcd(_, _)
Gcd(a, b) == IF b = 0 THEN a ELSE Gcd(b, a % b)

Abs(n) == IF n < 0 THEN 0 - n ELSE n

\* a JavaScript number that is the fraction n/d, d > 0: one value however it was
\* written (2.5 and 2.50 are the same number)
Fraction(n, d) ==
    LET g == Gcd(Abs(n), d) IN [num |-> n \div g, den |-> d \div g]

\* an array built by map, as the value it is (each element computed once)
Array(f) == f \o <<>>

\* String.prototype.trim
trim(s) ==
    LET N == {i \in 1..Len(s) : s[i] \notin WhiteSpace}
    IN  IF N = {} THEN <<>> ELSE SubSeq(s, Min(N), Max(N))

\* leading white space dropped, as parseInt and parseFloat do first
trimStart(s) ==
    LET N == {i \in 1..Len(s) : s[i] \notin WhiteSpace}
    IN  IF N = {} THEN <<>> ELSE SubSeq(s, Min(N), Len(s))

\* String.prototype.includes
includes(s, sub) ==
    \E i \in 1..(Len(s) - Len(sub) + 1) : SubSeq(s, i, i + Len(sub) - 1) = sub

\* String.prototype.split with a string separator
RECURSIVE splitFrom(_, _, _)
splitFrom(s, sep, from) ==
    LET P == {i \in from..(Len(s) - Len(sep) + 1) : SubSeq(s, i, i + Len(sep) - 1) = sep}
    IN  IF P = {} THEN <<SubSeq(s, from, Len(s))>>
        ELSE LET i == Min(P)
             IN  <<SubSeq(s, from, i - 1)>> \o splitFrom(s, sep, i + Len(sep))

split(s, sep) == splitFrom(s, sep, 1)

\* String.prototype.split with a separator of one character, between lo and hi.
\* Occurrences of one character cannot overlap, so the text is cut at its
\* middle occurrence first and each half is cut in turn.
RECURSIVE splitCharRange(_, _, _, _)
splitCharRange(s, c, lo, hi) ==
    LET P == {i \in lo..hi : s[i] = c}
    IN  IF P = {} THEN <<SubSeq(s, lo, hi)>>
        ELSE LET m == CHOOSE i \in P : Cardinality({j \in P : j <= i}) = (Cardinality(P) + 1) \div 2
             IN  splitCharRange(s, c, lo, m - 1) \o splitCharRange(s, c, m + 1, hi)

splitChar(s, c) == splitCharRange(s, c, 1, Len(s))

\* String.prototype.split(/\s+/)
RECURSIVE splitWsFrom(_, _)
splitWsFrom(s, from) ==
    LET W == {i \in from..Len(s) : s[i] \in WhiteSpace}
    IN  IF W = {} THEN <<SubSeq(s, from, Len(s))>>
        ELSE LET i == Min(W)
                 N == {j \in i..Len(s) : s[j] \notin WhiteSpace}
                 next == IF N = {} THEN Len(s) + 1 ELSE Min(N)
             IN  <<SubSeq(s, from, i - 1)>> \o splitWsFrom(s, next)

splitWs(s) == splitWsFrom(s, 1)

\* String.prototype.replace(/"/g, ''): every quote character removed
stripQuotes(s) == SelectSeq(s, LAMBDA c : c # "\"")

\* String.prototype.replace('%', ''): the first '%' removed, if there is one
replacePercent(s) ==
    LET P == {i \in 1..Len(s) : s[i] = "%"}
    IN  IF P = {} THEN s
        ELSE LET i == Min(P) IN SubSeq(s, 1, i - 1) \o SubSeq(s, i + 1, Len(s))

\* parts[i] of a JavaScript array (index from 0). An absent element (undefined)
\* is given as the empty text: every use below is `parts[i] || default` or
\* parseInt/parseFloat(parts[i]), which treat undefined and '' alike.
At(parts, i) == IF i < Len(parts) THEN parts[i + 1] ELSE <<>>

\* a || b on strings
OrStr(a, b) == IF a = <<>> THEN b ELSE a

\* number of leading characters of s that are digits of the radix
LeadingDigits(s, radix) ==
    LET B == {i \in 1..Len(s) : ~IsDigit(s[i], radix)}
    IN  IF B = {} THEN Len(s) ELSE Min(B) - 1

\* value of the first n characters of s read as digits of the radix
RECURSIVE DigitsValue(_, _, _)
DigitsValue(s, n, radix) ==
    IF n = 0 THEN 0 ELSE DigitsValue(s, n - 1, radix) * radix + DigitVal(s[n], radix)

\* parseInt(string) with no radix: [nan |-> TRUE] when no digit is found
parseInt(s) ==
    LET t == trimStart(s)
        neg == Len(t) > 0 /\ t[1] = "-"
        u == IF Len(t) > 0 /\ t[1] \in {"+", "-"} THEN Tail(t) ELSE t
        hex == Len(u) >= 2 /\ u[1] = "0" /\ u[2] \in {"x", "X"}
        body == IF hex THEN SubSeq(u, 3, Len(u)) ELSE u
        radix == IF hex THEN 16 ELSE 10
        n == LeadingDigits(body, radix)
        v == DigitsValue(body, n, radix)
    IN  IF n = 0 THEN [nan |-> TRUE, val |-> 0]
        ELSE [nan |-> FALSE, val |-> IF neg THEN 0 - v ELSE v]

\* parseInt(x) || 0
IntOrZero(r) == IF r.nan THEN 0 ELSE r.val

Infinity == <<"I", "n", "f", "i", "n", "i", "t", "y">>

\* parseFloat(string): the value is the exact fraction num/den; den = 0 with
\* num = 1 or -1 is +Infinity or -Infinity; nan is set when no number is found
parseFloat(s) ==
    LET t == trimStart(s)
        neg == Len(t) > 0 /\ t[1] = "-"
        u == IF Len(t) > 0 /\ t[1] \in {"+", "-"} THEN Tail(t) ELSE t
        n1 == LeadingDigits(u, 10)
        dot == Len(u) > n1 /\ u[n1 + 1] = "."
        f == IF dot THEN SubSeq(u, n1 + 2, Len(u)) ELSE <<>>
        n2 == LeadingDigits(f, 10)
        mant == DigitsValue(u, n1, 10) * Pow(10, n2) + DigitsValue(f, n2, 10)
        r == SubSeq(u, n1 + (IF dot THEN 1 + n2 ELSE 0) + 1, Len(u))
        esign == Len(r) >= 2 /\ r[1] \in {"e", "E"} /\ r[2] \in {"+", "-"}
        ed == IF Len(r) >= 1 /\ r[1] \in {"e", "E"}
              THEN SubSeq(r, IF esign THEN 3 ELSE 2, Len(r)) ELSE <<>>
        n3 == LeadingDigits(ed, 10)
        e == DigitsValue(ed, n3, 10)
        eneg == esign /\ r[2] = "-"
        num == mant * (IF eneg THEN 1 ELSE Pow(10, e))
        den == Pow(10, n2) * (IF eneg THEN Pow(10, e) ELSE 1)
    IN  IF Len(u) >= 8 /\ SubSeq(u, 1, 8) = Infinity
        THEN [nan |-> FALSE, num |-> IF neg THEN -1 ELSE 1, den |-> 0]
        ELSE IF n1 + n2 = 0 THEN [nan |-> TRUE, num |-> 0, den |-> 1]
        ELSE LET q == Fraction(num, den)
             IN  [nan |-> FALSE, num |-> IF neg THEN 0 - q.num ELSE q.num, den |-> q.den]

\* parseFloat(x) || 0: NaN and 0 both give 0
FloatOrZero(r) ==
    IF r.nan \/ r.num = 0 THEN [num |-> 0, den |-> 1] ELSE [num |-> r.num, den |-> r.den]

NaN == [num |-> 0, den |-> 0]

\* a / b on integers: the exact quotient; 0/0 is NaN, x/0 an infinity
Divide(a, b) ==
    IF b = 0 THEN (IF a = 0 THEN NaN ELSE [num |-> IF a > 0 THEN 1 ELSE -1, den |-> 0])
    ELSE IF b < 0 THEN Fraction(0 - a, 0 - b)
    ELSE Fraction(a, b)

\* q * k for an integer k > 0; NaN and the infinities stay what they are
Times(q, k) == IF q.den = 0 THEN q ELSE Fraction(q.num * k, q.den)

Sign(n) == IF n > 0 THEN 1 ELSE IF n < 0 THEN -1 ELSE 0

\* sign of x - y for two numbers (fractions or infinities); Infinity - Infinity
\* is NaN, which Array.prototype.sort reads as 0
SubSign(x, y) ==
    IF x.den = 0 /\ y.den = 0 THEN (IF x.num = y.num THEN 0 ELSE Sign(x.num))
    ELSE IF x.den = 0 THEN Sign(x.num)
    ELSE IF y.den = 0 THEN 0 - Sign(y.num)
    ELSE Sign(x.num * y.den - y.num * x.den)

\* number to decimal text, as a template literal prints a non-negative integer
RECURSIVE NumberToString(_)
NumberToString(n) == IF n < 10 THEN <<DecDigits[n + 1]>> ELSE NumberToString(n \div 10) \o <<DecDigits[(n % 10) + 1]>>

---------------------------------------------------------------------------
(* get-processes: the two parseFunctions *)

ProcessLimit == 50

QuotedImageName ==
    <<"\"","I","m","a","g","e"," ","N","a","m","e","\"">>

CommaQuote == <<"\"", ",", "\"">>

NotAvailable == <<"N", "/", "A">>

ZeroK == <<"0", " ", "K">>

NewLine == "\n"

\* a variant of PidFilter that lets pid 0 through
PidFilterNonNegative(process) == process.pid >= 0

\* .filter(process => process.pid > 0)
PidFilter(process) == process.pid > 0

\* a variant of slice50 that cuts one record too late
slice51(records) == SubSeq(records, 1, IF Len(records) < ProcessLimit + 1 THEN Len(records) ELSE ProcessLimit + 1)

\* .slice(0, 50)
slice50(records) == SubSeq(records, 1, IF Len(records) < ProcessLimit THEN Len(records) ELSE ProcessLimit)

\* Windows: .filter(line => line.trim() && !line.includes('"Image Name"'))
KeepCsvLine(line) == trim(line) # <<>> /\ ~includes(line, QuotedImageName)

\* a variant of MapCsvLine that keeps the quote characters and reads the
\* memory from the column before
MapCsvLineRaw(line) ==
    LET parts == split(line, CommaQuote)
    IN  [name |-> OrStr(At(parts, 0), <<>>),
         pid |-> IntOrZero(parseInt(stripQuotes(At(parts, 1)))),
         memory |-> OrStr(At(parts, 3), ZeroK),
         cpu |-> NotAvailable]

\* Windows: .map(line => {...})
MapCsvLine(line) ==
    LET raw == split(line, CommaQuote)
        parts == [i \in 1..Len(raw) |-> stripQuotes(raw[i])]
    IN  [name |-> OrStr(At(parts, 0), <<>>),
         pid |-> IntOrZero(parseInt(At(parts, 1))),
         memory |-> OrStr(At(parts, 4), ZeroK),
         cpu |-> NotAvailable]

\* a variant of ParseProcessesWin32 that cuts to 50 before it drops the bad pids
ParseProcessesWin32SliceFirst(output) ==
    LET lines == SelectSeq(splitChar(output, NewLine), KeepCsvLine)
        mapped == [i \in 1..Len(lines) |-> MapCsvLine(lines[i])]
    IN  SelectSeq(slice50(mapped), PidFilter)

\* parseFunction of get-processes on win32
ParseProcessesWin32(output) ==
    LET lines == SelectSeq(splitChar(output, NewLine), KeepCsvLine)
        mapped == [i \in 1..Len(lines) |-> MapCsvLine(lines[i])]
    IN  slice50(SelectSeq(mapped, PidFilter))

\* POSIX: .filter(line => line.trim())
KeepPsLine(line) == trim(line) # <<>>

\* a variant of MapPsLine whose name is the command field alone
MapPsLineCommandOnly(line) ==
    LET parts == splitWs(trim(line))
    IN  [name |-> At(parts, 10),
         pid |-> IntOrZero(parseInt(At(parts, 1))),
         cpu |-> FloatOrZero(parseFloat(At(parts, 2))),
         memory |-> FloatOrZero(parseFloat(At(parts, 3))),
         vsz |-> IntOrZero(parseInt(At(parts, 4))),
         rss |-> IntOrZero(parseInt(At(parts, 5))),
         tty |-> OrStr(At(parts, 6), <<>>),
         stat |-> OrStr(At(parts, 7), <<>>),
         start |-> OrStr(At(parts, 8), <<>>),
         time |-> OrStr(At(parts, 9), <<>>)]

\* POSIX: .map(line => {...})
MapPsLine(line) ==
    LET parts == splitWs(trim(line))
    IN  [name |-> OrStr(At(parts, 10), OrStr(At(parts, 0), <<>>)),
         pid |-> IntOrZero(parseInt(At(parts, 1))),
         cpu |-> FloatOrZero(parseFloat(At(parts, 2))),
         memory |-> FloatOrZero(parseFloat(At(parts, 3))),
         vsz |-> IntOrZero(parseInt(At(parts, 4))),
         rss |-> IntOrZero(parseInt(At(parts, 5))),
         tty |-> OrStr(At(parts, 6), <<>>),
         stat |-> OrStr(At(parts, 7), <<>>),
         start |-> OrStr(At(parts, 8), <<>>),
         time |-> OrStr(At(parts, 9), <<>>)]

\* (a, b) => b.cpu - a.cpu, as its sign
compareFn(a, b) == SubSign(b.cpu, a.cpu)

\* a variant of Merge that is not stable: of two equal records the one of
\* the right half goes first
MergeRightFirst(A, B) ==
    LET PA == Array([i \in DOMAIN A |->
                  i + Cardinality({j \in DOMAIN B : compareFn(A[i], B[j]) >= 0})])
        PB == Array([j \in DOMAIN B |->
                  j + Cardinality({i \in DOMAIN A : compareFn(A[i], B[j]) < 0})])
    IN  Array([p \in 1..(Len(A) + Len(B)) |->
                  IF \E i \in DOMAIN A : PA[i] = p
                  THEN A[CHOOSE i \in DOMAIN A : PA[i] = p]
                  ELSE B[CHOOSE j \in DOMAIN B : PB[j] = p]])

\* the stable merge of two sorted arrays: an element of B goes before an
\* element of A only when the comparator orders it strictly before
Merge(A, B) ==
    LET PA == Array([i \in DOMAIN A |->
                  i + Cardinality({j \in DOMAIN B : compareFn(A[i], B[j]) > 0})])
        PB == Array([j \in DOMAIN B |->
                  j + Cardinality({i \in DOMAIN A : compareFn(A[i], B[j]) <= 0})])
    IN  Array([p \in 1..(Len(A) + Len(B)) |->
                  IF \E i \in DOMAIN A : PA[i] = p
                  THEN A[CHOOSE i \in DOMAIN A : PA[i] = p]
                  ELSE B[CHOOSE j \in DOMAIN B : PB[j] = p]])

\* Array.prototype.sort(compareFn): a stable merge sort (ECMAScript 2019)
RECURSIVE sort(_)
sort(records) ==
    IF Len(records) <= 1 THEN records
    ELSE LET h == Len(records) \div 2
         IN  Merge(sort(SubSeq(records, 1, h)), sort(SubSeq(records, h + 1, Len(records))))

\* a variant of ParseProcessesPosix that cuts to 50 before it sorts
ParseProcessesPosixSliceFirst(output) ==
    LET lines == SelectSeq(splitChar(output, NewLine), KeepPsLine)
        mapped == [i \in 1..Len(lines) |-> MapPsLine(lines[i])]
    IN  sort(slice50(SelectSeq(mapped, PidFilter)))

\* parseFunction of get-processes on every other platform
ParseProcessesPosix(output) ==
    LET lines == SelectSeq(splitChar(output, NewLine), KeepPsLine)
        mapped == [i \in 1..Len(lines) |-> MapPsLine(lines[i])]
    IN  slice50(sort(SelectSeq(mapped, PidFilter)))

---------------------------------------------------------------------------
(* get-disk-usage: the two parseFunctions *)

Filesystem ==
    <<"F","i","l","e","s","y","s","t","e","m">>

Caption ==
    <<"C","a","p","t","i","o","n">>

\* a variant of KeepWmicLine that drops the lines with fewer than three fields
KeepWmicLineComplete(line) ==
    trim(line) # <<>> /\ ~includes(line, Caption) /\ Len(splitWs(trim(line))) >= 3

\* Windows: .filter(line => line.trim() && !line.includes('Caption'))
KeepWmicLine(line) == trim(line) # <<>> /\ ~includes(line, Caption)

\* a variant of MapWmicLine that reads size before free space
MapWmicLineSwapped(line) ==
    LET parts == splitWs(trim(line))
        caption == At(parts, 0)
        freeSpace == IntOrZero(parseInt(At(parts, 2)))
        size == IntOrZero(parseInt(At(parts, 1)))
        usedSpace == size - freeSpace
    IN  [filesystem |-> caption,
         size |-> size,
         used |-> usedSpace,
         available |-> freeSpace,
         usePercent |-> IF size > 0 THEN Times(Divide(usedSpace, size), 100)
                        ELSE [num |-> 0, den |-> 1],
         mounted |-> caption]

\* Windows: .map(line => {...})
MapWmicLine(line) ==
    LET parts == splitWs(trim(line))
        caption == At(parts, 0)
        freeSpace == IntOrZero(parseInt(At(parts, 1)))
        size == IntOrZero(parseInt(At(parts, 2)))
        usedSpace == size - freeSpace
    IN  [filesystem |-> caption,
         size |-> size,
         used |-> usedSpace,
         available |-> freeSpace,
         usePercent |-> IF size > 0 THEN Times(Divide(usedSpace, size), 100)
                        ELSE [num |-> 0, den |-> 1],
         mounted |-> caption]

\* parseFunction of get-disk-usage on win32
ParseDiskWin32(output) ==
    LET lines == SelectSeq(splitChar(output, NewLine), KeepWmicLine)
    IN  Array([i \in 1..Len(lines) |-> MapWmicLine(lines[i])])

\* a variant of KeepDfLine that drops the blank lines only
KeepDfLineNonBlank(line) == trim(line) # <<>>

\* POSIX: .filter(line => line.trim() && !line.includes('Filesystem'))
KeepDfLine(line) == trim(line) # <<>> /\ ~includes(line, Filesystem)

\* a variant of MapDfLine that reads the percentage one column too early
MapDfLineShifted(line) ==
    LET parts == splitWs(trim(line))
    IN  [filesystem |-> OrStr(At(parts, 0), <<>>),
         size |-> OrStr(At(parts, 1), <<>>),
         used |-> OrStr(At(parts, 2), <<>>),
         available |-> OrStr(At(parts, 3), <<>>),
         usePercent |-> IntOrZero(parseInt(replacePercent(At(parts, 3)))),
         mounted |-> OrStr(At(parts, 5), <<>>)]

\* POSIX: .map(line => {...})
MapDfLine(line) ==
    LET parts == splitWs(trim(line))
    IN  [filesystem |-> OrStr(At(parts, 0), <<>>),
         size |-> OrStr(At(parts, 1), <<>>),
         used |-> OrStr(At(parts, 2), <<>>),
         available |-> OrStr(At(parts, 3), <<>>),
         usePercent |-> IntOrZero(parseInt(replacePercent(At(parts, 4)))),
         mounted |-> OrStr(At(parts, 5), <<>>)]

\* parseFunction of get-disk-usage on every other platform
ParseDiskPosix(output) ==
    LET lines == SelectSeq(splitChar(output, NewLine), KeepDfLine)
    IN  Array([i \in 1..Len(lines) |-> MapDfLine(lines[i])])

---------------------------------------------------------------------------
(* get-cpu-usage, get-system-stats *)

\* cpus.reduce((acc, cpu) => acc + cpu.times.idle, 0)
RECURSIVE TotalIdle(_)
TotalIdle(cs) == IF cs = <<>> THEN 0 ELSE TotalIdle(SubSeq(cs, 1, Len(cs) - 1)) + cs[Len(cs)].idle

\* cpus.reduce((acc, cpu) => acc + user + nice + sys + idle + irq, 0)
RECURSIVE TotalTick(_)
TotalTick(cs) ==
    IF cs = <<>> THEN 0
    ELSE LET cpu == cs[Len(cs)]
         IN  TotalTick(SubSeq(cs, 1, Len(cs) - 1))
                 + cpu.user + cpu.nice + cpu.sys + cpu.idle + cpu.irq

\* a variant of CpuUsage that reports the idle share
CpuUsageIdleShare(cs, loadavg) ==
    [usage |-> Times(Divide(TotalIdle(cs), TotalTick(cs)), 100),
     cores |-> Len(cs),
     loadAvg |-> loadavg]

\* the value get-cpu-usage returns. usage is the exact value of
\* ((totalTick - totalIdle) / totalTick) * 100, which the double rounds
\* monotonically: it is 0, 100 or NaN exactly when the double is.
CpuUsage(cs, loadavg) ==
    [usage |-> Times(Divide(TotalTick(cs) - TotalIdle(cs), TotalTick(cs)), 100),
     cores |-> Len(cs),
     loadAvg |-> loadavg]

\* the value get-system-stats returns
SystemStats(cs, loadavg, totalmem, freemem, up, plat, host) ==
    [cpu |-> [usage |-> Times(Divide(TotalTick(cs) - TotalIdle(cs), TotalTick(cs)), 100),
              cores |-> Len(cs),
              loadAvg |-> loadavg],
     memory |-> [total |-> totalmem,
                 free |-> freemem,
                 used |-> totalmem - freemem,
                 usage |-> Times(Divide(totalmem - freemem, totalmem), 100)],
     system |-> [uptime |-> up, platform |-> plat, hostname |-> host]]

\* 'Unknown', the model name reported when os.cpus() is empty
UnknownModel == <<"U", "n", "k", "n", "o", "w", "n">>

\* model name of the cores of the host
CpuModel == <<"c", "p", "u">>

\* the value get-detailed-system-info returns (the pass-through texts of the
\* platform part other than process.platform, and the network part, are left
\* out)
DetailedSystemInfo(cs, loadavg, totalmem, freemem, up, plat) ==
    [platform |-> [platform |-> plat],
     cpu |-> [cores |-> Len(cs),
              model |-> IF cs = <<>> THEN UnknownModel ELSE CpuModel,
              speed |-> IF cs = <<>> THEN 0 ELSE 2400,
              details |-> [i \in 1..Len(cs) |-> [id |-> i - 1, times |-> cs[i]]]],
     memory |-> [total |-> totalmem, free |-> freemem, used |-> totalmem - freemem],
     system |-> [uptime |-> up, loadavg |-> loadavg]]

---------------------------------------------------------------------------
(* get-system-uptime *)

Unknown ==
    <<"U","n","k","n","o","w","n">>

\* a variant of formatUptime that takes the minutes of the day
formatUptimeDayMinutes(seconds) ==
    LET days == seconds \div 86400
        hours == (seconds % 86400) \div 3600
        minutes == (seconds % 86400) \div 60
    IN  IF days > 0
        THEN NumberToString(days) \o <<"d", " ">> \o NumberToString(hours) \o <<"h", " ">>
                 \o NumberToString(minutes) \o <<"m">>
        ELSE IF hours > 0
        THEN NumberToString(hours) \o <<"h", " ">> \o NumberToString(minutes) \o <<"m">>
        ELSE NumberToString(minutes) \o <<"m">>

\* a variant of formatUptime whose hours are not reduced by the days
formatUptimeTotalHours(seconds) ==
    LET days == seconds \div 86400
        hours == seconds \div 3600
        minutes == (seconds % 3600) \div 60
    IN  IF days > 0
        THEN NumberToString(days) \o <<"d", " ">> \o NumberToString(hours) \o <<"h", " ">>
                 \o NumberToString(minutes) \o <<"m">>
        ELSE IF hours > 0
        THEN NumberToString(hours) \o <<"h", " ">> \o NumberToString(minutes) \o <<"m">>
        ELSE NumberToString(minutes) \o <<"m">>

\* formatUptime(seconds), for a whole number of seconds: Math.floor(a / b) is
\* the integer quotient
formatUptime(seconds) ==
    LET days == seconds \div 86400
        hours == (seconds % 86400) \div 3600
        minutes == (seconds % 3600) \div 60
    IN  IF days > 0
        THEN NumberToString(days) \o <<"d", " ">> \o NumberToString(hours) \o <<"h", " ">>
                 \o NumberToString(minutes) \o <<"m">>
        ELSE IF hours > 0
        THEN NumberToString(hours) \o <<"h", " ">> \o NumberToString(minutes) \o <<"m">>
        ELSE NumberToString(minutes) \o <<"m">>

---------------------------------------------------------------------------
(* What the host reports *)

\* per-core counters of os.cpus(): non-negative numbers of milliseconds
CoreTimes == [user : {0, 3}, nice : {0}, sys : {0, 2}, idle : {0, 5}, irq : {0, 1}]

\* os.cpus(): one entry per logical core, none when the host gives no CPU
\* information
Snapshots == UNION {[1..n -> CoreTimes] : n \in 0..MaxCores}

\* os.loadavg()
LoadAverages == {<<0, 0, 0>>, <<3, 2, 1>>}

\* os.totalmem() and os.freemem(), in bytes
MemorySamples == {<<8, 2>>, <<8, 8>>}

\* os.uptime(), in whole seconds
UptimeSamples ==
    {d * 86400 + h * 3600 + m * 60 + sec :
        d \in (0..MaxDays) \union {400}, h \in {0, 1, 23}, m \in {0, 1, 59}, sec \in {0, 1, 59}}

\* Date.now(), in whole seconds since the epoch
Clock == {1800000000}

---------------------------------------------------------------------------
(* Output the child processes can write, in data chunks *)

\* bob 7 2.5 1.0 50 20 pts/0 R 10:00 0:02 node
PsLineA ==
    <<"b","o","b"," ","7"," ","2",".","5"," ","1",".","0"," ","5","0"," ","2","0"," ","p","t",
      "s","/","0"," ","R"," ","1","0",":","0","0"," ","0",":","0","2"," ","n","o","d","e","\n">>

\* amy 8 2.5 0.5 40 10 ? S 10:01 0:00 sh          (same %CPU as PsLineA)
PsLineB ==
    <<"a","m","y"," ","8"," ","2",".","5"," ","0",".","5"," ","4","0"," ","1","0"," ","?"," ",
      "S"," ","1","0",":","0","1"," ","0",":","0","0"," ","s","h","\n">>

\* bob 9 10.0 3.0 90 30 ? R 10:02 0:09 vite
PsLineC ==
    <<"b","o","b"," ","9"," ","1","0",".","0"," ","3",".","0"," ","9","0"," ","3","0"," ","?",
      " ","R"," ","1","0",":","0","2"," ","0",":","0","9"," ","v","i","t","e","\n">>

\* root 1 0.0 0.1 168 11 ? Ss 09:00 0:01 init
PsLineD ==
    <<"r","o","o","t"," ","1"," ","0",".","0"," ","0",".","1"," ","1","6","8"," ","1","1"," ",
      "?"," ","S","s"," ","0","9",":","0","0"," ","0",":","0","1"," ","i","n","i","t","\n">>

\* five lines: no pid field, a pid that is no number, pid 0, a blank line, pid -3
PsLinesBad ==
    <<"j","u","n","k","\n","y"," ","a","b"," ","1",".","0"," ","1","\n","x"," ","0"," ","9",".",
      "9"," ","0"," ","0"," ","0"," ","?"," ","Z"," ","0"," ","0"," ","z","e","r","o","\n"," ",
      "\t","\r","\n","x"," ","-","3"," ","5",".","0","\n">>

\* a short line with tabs, a pid with trailing letters and no command field
PsLineOdd ==
    <<"\t","z"," "," ","1","2","a","b"," ","7"," ","x","\n">>

PsBurstHead ==
    <<"u"," ">>

PsBurstTail ==
    <<" ","0",".","0"," ","1"," ","1"," ","?"," ","S"," ","0"," ","0"," ","w","\n">>

BurstCpu == <<<<"1", ".", "0">>, <<"2", ".", "5">>, <<"3", ".", "0">>>>

\* line k of a burst of ps lines: u <100+k> <1.0|2.5|3.0> 0.0 1 1 ? S 0 0 w
PsBurstLine(k) ==
    PsBurstHead \o NumberToString(100 + k) \o <<" ">> \o BurstCpu[(k % 3) + 1] \o PsBurstTail

RECURSIVE PsBurstLines(_, _)
PsBurstLines(lo, hi) ==
    IF lo > hi THEN <<>>
    ELSE IF lo = hi THEN PsBurstLine(lo)
    ELSE PsBurstLines(lo, (lo + hi) \div 2) \o PsBurstLines((lo + hi) \div 2 + 1, hi)

PsBurst == PsBurstLines(1, BurstLen)

PsChunks == {PsLineA, PsLineB, PsLineC, PsLineD, PsLinesBad, PsLineOdd, PsBurst}

\* "chrome.exe","1234","Console","1","50,000 K"
CsvLineChrome ==
    <<"\"","c","h","r","o","m","e",".","e","x","e","\"",",","\"","1","2","3","4","\"",",","\"",
      "C","o","n","s","o","l","e","\"",",","\"","1","\"",",","\"","5","0",",","0","0","0"," ",
      "K","\"","\n">>

\* "a.exe","7","Console","1","1 K" with the CR LF line end of tasklist
CsvLineA ==
    <<"\"","a",".","e","x","e","\"",",","\"","7","\"",",","\"","C","o","n","s","o","l","e","\"",
      ",","\"","1","\"",",","\"","1"," ","K","\"","\r","\n">>

\* the header line tasklist prints without /NH
CsvHeader ==
    <<"\"","I","m","a","g","e"," ","N","a","m","e","\"",",","\"","P","I","D","\"",",","\"","S",
      "e","s","s","i","o","n"," ","N","a","m","e","\"",",","\"","S","e","s","s","i","o","n","#",
      "\"",",","\"","M","e","m"," ","U","s","a","g","e","\"","\r","\n">>

\* five lines: pid 0, a pid that is no number, a blank line, no pid field, pid -4
CsvLinesBad ==
    <<"\"","S","y","s","t","e","m"," ","I","d","l","e"," ","P","r","o","c","e","s","s","\"",",",
      "\"","0","\"",",","\"","S","e","r","v","i","c","e","s","\"",",","\"","0","\"",",","\"",
      "8"," ","K","\"","\r","\n","\"","b",".","e","x","e","\"",",","\"","x","\"",",","\"","C",
      "\"",",","\"","1","\"",",","\"","2"," ","K","\"","\r","\n","\r","\n","\"","c",".","e","x",
      "e","\"","\r","\n","\"","d",".","e","x","e","\"",",","\"","-","4","\"",",","\"","C","\"",
      ",","\"","1","\"",",","\"","3"," ","K","\"","\r","\n">>

\* two fields only
CsvLineShort ==
    <<"\"","e",".","e","x","e","\"",",","\"","9","\"","\r","\n">>

\* a program whose name begins with the words of the header's first column
CsvLineViewer ==
    <<"\"","I","m","a","g","e"," ","N","a","m","e"," ","V","i","e","w","e","r",".","e","x","e",
      "\"",",","\"","4","3","2","1","\"",",","\"","C","o","n","s","o","l","e","\"",",","\"","1",
      "\"",",","\"","9"," ","K","\"","\r","\n">>

CsvBurstHead ==
    <<"\"","w",".","e","x","e","\"",",","\"">>

CsvBurstTail ==
    <<"\"",",","\"","S","e","r","v","i","c","e","s","\"",",","\"","0","\"",",","\"","4"," ","K",
      "\"","\r","\n">>

\* line k of a burst of tasklist lines: "w.exe","<100+k>","Services","0","4 K"
CsvBurstLine(k) == CsvBurstHead \o NumberToString(100 + k) \o CsvBurstTail

RECURSIVE CsvBurstLines(_, _)
CsvBurstLines(lo, hi) ==
    IF lo > hi THEN <<>>
    ELSE IF lo = hi THEN CsvBurstLine(lo)
    ELSE CsvBurstLines(lo, (lo + hi) \div 2) \o CsvBurstLines((lo + hi) \div 2 + 1, hi)

CsvBurst == CsvBurstLines(1, BurstLen)

CsvChunks ==
    {CsvLineChrome, CsvLineA, CsvHeader, CsvLinesBad, CsvLineShort, CsvLineViewer, CsvBurst}

\* the header line of df
DfHeader ==
    <<"F","i","l","e","s","y","s","t","e","m"," "," "," "," "," "," ","S","i","z","e"," "," ",
      "U","s","e","d"," ","A","v","a","i","l"," ","U","s","e","%"," ","M","o","u","n","t","e",
      "d"," ","o","n","\n">>

\* /dev/sda1  100G   50G   50G   50% /
DfLineSda ==
    <<"/","d","e","v","/","s","d","a","1"," "," ","1","0","0","G"," "," "," ","5","0","G"," ",
      " "," ","5","0","G"," "," "," ","5","0","%"," ","/","\n">>

\* tmpfs 1.6G 0 1.6G 0% /run
DfLineTmpfs ==
    <<"t","m","p","f","s"," ","1",".","6","G"," ","0"," ","1",".","6","G"," ","0","%"," ","/",
      "r","u","n","\n">>

\* /dev/sdb1 2T 2T 0 100% /data
DfLineFull ==
    <<"/","d","e","v","/","s","d","b","1"," ","2","T"," ","2","T"," ","0"," ","1","0","0","%",
      " ","/","d","a","t","a","\n">>

\* four lines: dashes for the numbers, a blank line, a device name alone on
\* its line and the rest of its row on the next
DfLinesOdd ==
    <<"n","o","n","e"," ","-"," ","-"," ","-"," ","-"," ","/","p","r","o","c","\n","\n","/","d",
      "e","v","/","m","a","p","p","e","r","/","v","g","-","l","o","n","g","\n"," "," "," ","9",
      "G"," ","1","G"," ","8","G"," ","1","2","%"," ","/","h","o","m","e","\n">>

\* /dev/sdc1 1G 2G 0 120% /mnt/x
DfLineOver ==
    <<"/","d","e","v","/","s","d","c","1"," ","1","G"," ","2","G"," ","0"," ","1","2","0","%",
      " ","/","m","n","t","/","x","\n">>

\* a volume mounted on a directory named Filesystem
DfLineMarked ==
    <<"/","d","e","v","/","s","d","d","1"," ","5","G"," ","1","G"," ","4","G"," ","2","0","%",
      " ","/","m","n","t","/","F","i","l","e","s","y","s","t","e","m","\n">>

DfChunks ==
    {DfHeader, DfLineSda, DfLineTmpfs, DfLineFull, DfLinesOdd, DfLineOver, DfLineMarked}

\* the header line of wmic, with its CR CR LF line end
WmicHeader ==
    <<"C","a","p","t","i","o","n"," "," ","F","r","e","e","S","p","a","c","e"," "," ","S","i",
      "z","e","\r","\r","\n">>

\* C: with 1000 free of 4000
WmicLineC ==
    <<"C",":"," "," "," "," "," "," "," ","1","0","0","0"," "," "," "," "," "," "," ","4","0",
      "0","0","\r","\r","\n">>

\* D: with no numbers (a drive with no medium)
WmicLineD ==
    <<"D",":","\r","\r","\n">>

\* E: with more free space than size
WmicLineE ==
    <<"E",":"," "," "," "," "," "," "," ","5","0","0","0"," "," "," "," "," "," "," ","4","0",
      "0","0","\r","\r","\n">>

\* three lines: a blank line, a volume of size 0, a free space that is no number
WmicLinesOdd ==
    <<"\r","\r","\n","F",":"," "," "," "," "," "," "," ","0"," "," "," "," "," "," "," "," ",
      " "," ","0","\r","\r","\n","G",":"," "," "," "," "," "," "," ","x"," "," "," "," "," ",
      " "," "," "," "," ","6","4","\r","\r","\n">>

WmicChunks == {WmicHeader, WmicLineC, WmicLineD, WmicLineE, WmicLinesOdd}

Platforms == {"win32", "linux", "darwin"}

\* what the command of a request can print
OutputChunks(cmd) ==
    IF cmd = "tasklist /FO CSV /NH" THEN CsvChunks
    ELSE IF cmd = "ps aux --no-headers" THEN PsChunks
    ELSE IF cmd = "wmic logicaldisk get size,freespace,caption" THEN WmicChunks
    ELSE IF cmd = "df -h" THEN DfChunks
    ELSE {}

---------------------------------------------------------------------------
(* The main process *)

NoResult == <<>>

\* useState(null), useState([]), useState([]), useState(false), useState(null),
\* useState(null): each datum is kept with the number of the fetchAllData call
\* that set it, 0 for the initial value; lastUpdate is kept as that number
InitialDashboard ==
    [detailedInfo |-> [call |-> 0, value |-> NoResult],
     processes |-> [call |-> 0, value |-> <<>>],
     diskUsage |-> [call |-> 0, value |-> <<>>],
     loading |-> FALSE,
     error |-> "",
     lastUpdate |-> 0]

\* SystemMonitor: useState(null), useState(false), useState(null),
\* useState(null), and no fetchStats call yet; stats is kept with the number
\* of the call that set it, 0 for null, and lastUpdate as that number
InitialMonitor ==
    [stats |-> [call |-> 0, value |-> NoResult],
     loading |-> FALSE,
     error |-> "",
     lastUpdate |-> 0,
     calls |-> <<>>]

Init ==
    /\ platform \in Platforms
    /\ pc = "idle"
    /\ channel = "none"
    /\ command = ""
    /\ parseFunction = "none"
    /\ nchunks = 0
    /\ stdout = <<>>
    /\ cpus = <<>>
    /\ uptime = 0
    /\ result = NoResult
    /\ spawned = 0
    /\ calls = <<>>
    /\ dashboard = InitialDashboard
    /\ monitor = InitialMonitor

\* a variant of GetProcesses that binds the POSIX parser on every platform
GetProcessesPosixParser ==
    /\ pc = "idle"
    /\ channel' = "get-processes"
    /\ command' = IF platform = "win32" THEN "tasklist /FO CSV /NH" ELSE "ps aux --no-headers"
    /\ parseFunction' = "posix"
    /\ spawned' = spawned + 1
    /\ pc' = "exec"
    /\ UNCHANGED <<platform, nchunks, stdout, cpus, uptime, result>>
    /\ UNCHANGED renderer

\* ipcMain.handle('get-processes'): up to the await of execAsync(command)
GetProcesses ==
    /\ pc = "idle"
    /\ channel' = "get-processes"
    /\ command' = IF platform = "win32" THEN "tasklist /FO CSV /NH" ELSE "ps aux --no-headers"
    /\ parseFunction' = IF platform = "win32" THEN "win32" ELSE "posix"
    /\ spawned' = spawned + 1
    /\ pc' = "exec"
    /\ UNCHANGED <<platform, nchunks, stdout, cpus, uptime, result>>
    /\ UNCHANGED renderer

\* the child process writes a chunk to its standard output
ExecData(chunk) ==
    /\ pc = "exec"
    /\ nchunks < MaxChunks
    /\ chunk \in OutputChunks(command)
    /\ stdout' = stdout \o chunk
    /\ nchunks' = nchunks + 1
    /\ UNCHANGED <<platform, pc, channel, command, parseFunction, cpus, uptime, result, spawned>>
    /\ UNCHANGED renderer

\* return parseFunction(stdout)
Parsed(chan, parser, output) ==
    IF chan = "get-processes"
    THEN (IF parser = "win32" THEN ParseProcessesWin32(output) ELSE ParseProcessesPosix(output))
    ELSE (IF parser = "win32" THEN ParseDiskWin32(output) ELSE ParseDiskPosix(output))

\* the child exits with code 0: the await resumes and the handler returns
ExecResolves ==
    /\ pc = "exec"
    /\ result' = Parsed(channel, parseFunction, stdout)
    /\ pc' = "returned"
    /\ UNCHANGED <<platform, channel, command, parseFunction, nchunks, stdout, cpus, uptime, spawned>>
    /\ UNCHANGED renderer

\* a variant of ExecRejects with no catch block: the error leaves the handler
ExecRejectsUncaught ==
    /\ pc = "exec"
    /\ pc' = "rejected"
    /\ UNCHANGED <<platform, channel, command, parseFunction, nchunks, stdout, cpus, uptime, result,
                   spawned>>
    /\ UNCHANGED renderer

\* a variant of ExecRejects that runs the command again after a failure
ExecRejectsRetries ==
    /\ pc = "exec"
    /\ spawned < 3
    /\ spawned' = spawned + 1
    /\ stdout' = <<>>
    /\ nchunks' = 0
    /\ UNCHANGED <<platform, pc, channel, command, parseFunction, cpus, uptime, result>>
    /\ UNCHANGED renderer

\* the child cannot be spawned or exits non-zero: catch (error) { return []; }
ExecRejects ==
    /\ pc = "exec"
    /\ result' = <<>>
    /\ pc' = "failed"
    /\ UNCHANGED <<platform, channel, command, parseFunction, nchunks, stdout, cpus, uptime, spawned>>
    /\ UNCHANGED renderer

\* a variant of Reply in which the text read from the child process is kept
\* in a buffer that outlives the request
ReplyKeepsOutput ==
    /\ pc \in {"returned", "failed", "rejected"}
    /\ pc' = "idle"
    /\ channel' = "none"
    /\ command' = ""
    /\ parseFunction' = "none"
    /\ cpus' = <<>>
    /\ uptime' = 0
    /\ result' = NoResult
    /\ spawned' = 0
    /\ UNCHANGED <<platform, nchunks, stdout>>
    /\ UNCHANGED renderer

\* the reply (the value, or the error of a rejected handler) is sent to the
\* renderer; nothing of the request is kept
Reply ==
    /\ pc \in {"returned", "failed", "rejected"}
    /\ pc' = "idle"
    /\ channel' = "none"
    /\ command' = ""
    /\ parseFunction' = "none"
    /\ nchunks' = 0
    /\ stdout' = <<>>
    /\ cpus' = <<>>
    /\ uptime' = 0
    /\ result' = NoResult
    /\ spawned' = 0
    /\ UNCHANGED platform
    /\ UNCHANGED renderer

\* ipcMain.handle('get-disk-usage'): up to the await of execAsync(command)
GetDiskUsage ==
    /\ pc = "idle"
    /\ channel' = "get-disk-usage"
    /\ command' = IF platform = "win32" THEN "wmic logicaldisk get size,freespace,caption"
                  ELSE "df -h"
    /\ parseFunction' = IF platform = "win32" THEN "win32" ELSE "posix"
    /\ spawned' = spawned + 1
    /\ pc' = "exec"
    /\ UNCHANGED <<platform, nchunks, stdout, cpus, uptime, result>>
    /\ UNCHANGED renderer

\* ipcMain.handle('get-cpu-usage')
GetCpuUsage ==
    /\ pc = "idle"
    /\ \E cs \in Snapshots, loadavg \in LoadAverages :
          /\ cpus' = cs
          /\ result' = CpuUsage(cs, loadavg)
    /\ channel' = "get-cpu-usage"
    /\ pc' = "returned"
    /\ UNCHANGED <<platform, command, parseFunction, nchunks, stdout, uptime, spawned>>
    /\ UNCHANGED renderer

\* ipcMain.handle('get-system-stats')
GetSystemStats ==
    /\ pc = "idle"
    /\ \E cs \in Snapshots, loadavg \in LoadAverages, mem \in MemorySamples, up \in {0, 3661} :
          /\ cpus' = cs
          /\ uptime' = up
          /\ result' = SystemStats(cs, loadavg, mem[1], mem[2], up, platform, "host")
    /\ channel' = "get-system-stats"
    /\ pc' = "returned"
    /\ UNCHANGED <<platform, command, parseFunction, nchunks, stdout, spawned>>
    /\ UNCHANGED renderer

\* ipcMain.handle('get-system-uptime'), os.uptime() answering. bootTime is
\* kept as the instant handed to new Date(...), in seconds.
GetSystemUptime ==
    /\ pc = "idle"
    /\ \E up \in UptimeSamples, now \in Clock :
          /\ uptime' = up
          /\ result' = [uptime |-> up,
                        bootTime |-> now - up,
                        formattedUptime |-> formatUptime(up)]
    /\ channel' = "get-system-uptime"
    /\ pc' = "returned"
    /\ UNCHANGED <<platform, command, parseFunction, nchunks, stdout, cpus, spawned>>
    /\ UNCHANGED renderer

\* ipcMain.handle('get-system-uptime'), os.uptime() throwing: the catch block
GetSystemUptimeThrows ==
    /\ pc = "idle"
    /\ result' = [uptime |-> 0, bootTime |-> <<>>, formattedUptime |-> Unknown]
    /\ channel' = "get-system-uptime"
    /\ pc' = "failed"
    /\ UNCHANGED <<platform, command, parseFunction, nchunks, stdout, cpus, uptime, spawned>>
    /\ UNCHANGED renderer

\* ipcMain.handle('get-detailed-system-info'), every os query answering
GetDetailedSystemInfo ==
    /\ pc = "idle"
    /\ \E cs \in Snapshots, loadavg \in LoadAverages, mem \in MemorySamples, up \in {0, 3661} :
          /\ cpus' = cs
          /\ uptime' = up
          /\ result' = DetailedSystemInfo(cs, loadavg, mem[1], mem[2], up, platform)
    /\ channel' = "get-detailed-system-info"
    /\ pc' = "returned"
    /\ UNCHANGED <<platform, command, parseFunction, nchunks, stdout, spawned>>
    /\ UNCHANGED renderer

\* ipcMain.handle('get-detailed-system-info'), os.userInfo() throwing (a user
\* with no username or home directory): the handler has no catch block
GetDetailedSystemInfoThrows ==
    /\ pc = "idle"
    /\ channel' = "get-detailed-system-info"
    /\ pc' = "rejected"
    /\ UNCHANGED <<platform, command, parseFunction, nchunks, stdout, cpus, uptime, result,
                   spawned>>
    /\ UNCHANGED renderer

---------------------------------------------------------------------------
(* SystemMonitor: fetchStats and the status indicator *)

\* usage < n, as JavaScript compares: false for NaN
LessThan(usage, n) ==
    IF usage.den = 0 THEN usage.num < 0 ELSE usage.num < n * usage.den

\* a variant of getCpuStatus whose first threshold is inclusive
getCpuStatusInclusive(usage) ==
    IF ~(usage.den = 0) /\ usage.num <= 50 * usage.den THEN "Good"
    ELSE IF LessThan(usage, 80) THEN "Moderate"
    ELSE "High"

\* getCpuStatus(usage).status
getCpuStatus(usage) ==
    IF LessThan(usage, 50) THEN "Good"
    ELSE IF LessThan(usage, 80) THEN "Moderate"
    ELSE "High"

\* what get-system-stats can answer: the statistics of a host with no core
\* information or with one core of any tick counts, or the rejection of a
\* handler an exception has left (os.uptime() throwing)
StatsRepliesOn(plat) ==
    {[state |-> "resolved",
      value |-> SystemStats(<<[user |-> u, nice |-> 0, sys |-> 0, idle |-> i, irq |-> 0]>>,
                            <<0, 0, 0>>, 8, 2, 3661, plat, "host")] :
        u \in 0..MaxTicks, i \in 0..MaxTicks}
    \union {[state |-> "resolved",
             value |-> SystemStats(<<>>, <<0, 0, 0>>, 8, 2, 3661, plat, "host")],
            [state |-> "rejected", value |-> NoResult]}

\* the replies on each platform, computed once
StatsRepliesOf == [plat \in Platforms |-> StatsRepliesOn(plat)]

StatsReplies == StatsRepliesOf[platform]

\* fetchStats up to its await: setLoading(true), setError(null) and the
\* invocation of get-system-stats
FetchStats ==
    /\ Len(monitor.calls) < MaxFetches
    /\ monitor' = [monitor EXCEPT !.calls = Append(@, "awaiting"),
                                  !.loading = TRUE, !.error = ""]
    /\ UNCHANGED <<main, calls, dashboard>>

\* useEffect: fetchStats on mount and on every tick of setInterval(.., 2000)
MonitorIntervalTick == FetchStats

\* onClick of the Refresh button, which is disabled while loading
MonitorClickRefresh == ~monitor.loading /\ FetchStats

\* the reply to call k arrives and fetchStats continues: setStats and
\* setLastUpdate, or setError of the catch block, then setLoading(false)
StatsSettles ==
    \E k \in DOMAIN monitor.calls, reply \in StatsReplies :
        /\ monitor.calls[k] = "awaiting"
        /\ monitor' =
              IF reply.state = "resolved"
              THEN [monitor EXCEPT !.calls[k] = "applied",
                                   !.stats = [call |-> k, value |-> reply.value],
                                   !.lastUpdate = k,
                                   !.loading = FALSE]
              ELSE [monitor EXCEPT !.calls[k] = "failed",
                                   !.error = "Failed to fetch system stats",
                                   !.loading = FALSE]
        /\ UNCHANGED <<main, calls, dashboard>>

\* the status the CPU card shows: getCpuStatus(stats.cpu.usage).status
CpuStatusShown == getCpuStatus(monitor.stats.value.cpu.usage)

NextMonitor ==
    \/ MonitorIntervalTick
    \/ MonitorClickRefresh
    \/ StatsSettles

SpecMonitor == Init /\ [][NextMonitor]_vars

---------------------------------------------------------------------------
(* SystemInfoDashboard: fetchAllData *)

Pending == [state |-> "pending", value |-> NoResult]

Resolved(v) == [state |-> "resolved", value |-> v]

Rejected == [state |-> "rejected", value |-> NoResult]

Requests == {"detailed", "processes", "disk"}

\* what get-detailed-system-info can answer: a value, or the rejection of a
\* handler an exception has left
DetailedReplies ==
    {Resolved(DetailedSystemInfo(<<[user |-> 3, nice |-> 0, sys |-> 2, idle |-> 5, irq |-> 1]>>,
                                 <<0, 0, 0>>, 8, 2, 3661, platform)),
     Rejected}

\* a listing each parseFunction can return
TasklistListing == ParseProcessesWin32(CsvLineChrome)

PsListing == ParseProcessesPosix(PsLineA)

WmicListing == ParseDiskWin32(WmicLineC)

DfListing == ParseDiskPosix(DfLineSda)

\* what get-processes can answer: the parsed listing, or [] after a failure
ProcessesReplies ==
    {Resolved(IF platform = "win32" THEN TasklistListing ELSE PsListing), Resolved(<<>>)}

\* what get-disk-usage can answer: the parsed listing, or [] after a failure
DiskReplies ==
    {Resolved(IF platform = "win32" THEN WmicListing ELSE DfListing), Resolved(<<>>)}

\* fetchAllData up to its await: setLoading(true), setError(null) and the
\* three invocations handed to Promise.all
FetchAllData ==
    /\ Len(calls) < MaxFetches
    /\ calls' = Append(calls, [detailed |-> Pending, processes |-> Pending, disk |-> Pending,
                               outcome |-> "awaiting"])
    /\ dashboard' = [dashboard EXCEPT !.loading = TRUE, !.error = ""]
    /\ UNCHANGED <<main, monitor>>

\* useEffect: fetchAllData on mount and on every tick of setInterval(.., 5000)
IntervalTick == FetchAllData

\* onClick of the Refresh button, which is disabled while loading
ClickRefresh == ~dashboard.loading /\ FetchAllData

\* Promise.all over the three requests of a call: rejected as soon as one is
\* rejected, fulfilled once all are fulfilled
PromiseAll(call) ==
    IF \E r \in Requests : call[r].state = "rejected" THEN "rejected"
    ELSE IF \A r \in Requests : call[r].state = "resolved" THEN "fulfilled"
    ELSE "pending"

\* a variant of Continue that leaves the disk listing as it was
ContinueKeepsDisk(k, call) ==
    IF PromiseAll(call) = "fulfilled"
    THEN [detailedInfo |-> [call |-> k, value |-> call.detailed.value],
          processes |-> [call |-> k, value |-> call.processes.value],
          diskUsage |-> dashboard.diskUsage,
          loading |-> FALSE,
          error |-> dashboard.error,
          lastUpdate |-> k]
    ELSE [dashboard EXCEPT !.error = "Failed to fetch system information", !.loading = FALSE]

\* a variant of Continue whose catch block also empties the two listings
ContinueClearsOnError(k, call) ==
    IF PromiseAll(call) = "fulfilled"
    THEN [detailedInfo |-> [call |-> k, value |-> call.detailed.value],
          processes |-> [call |-> k, value |-> call.processes.value],
          diskUsage |-> [call |-> k, value |-> call.disk.value],
          loading |-> FALSE,
          error |-> dashboard.error,
          lastUpdate |-> k]
    ELSE [dashboard EXCEPT !.error = "Failed to fetch system information", !.loading = FALSE,
                           !.processes = [call |-> 0, value |-> <<>>],
                           !.diskUsage = [call |-> 0, value |-> <<>>]]

\* a variant of Continue without the finally block: loading is reset on the
\* success path alone
ContinueNoFinally(k, call) ==
    IF PromiseAll(call) = "fulfilled"
    THEN [detailedInfo |-> [call |-> k, value |-> call.detailed.value],
          processes |-> [call |-> k, value |-> call.processes.value],
          diskUsage |-> [call |-> k, value |-> call.disk.value],
          loading |-> FALSE,
          error |-> dashboard.error,
          lastUpdate |-> k]
    ELSE [dashboard EXCEPT !.error = "Failed to fetch system information"]

\* the rest of fetchAllData once Promise.all has settled: the four setters
\* of the try block, or setError of the catch block, then setLoading(false)
Continue(k, call) ==
    IF PromiseAll(call) = "fulfilled"
    THEN [detailedInfo |-> [call |-> k, value |-> call.detailed.value],
          processes |-> [call |-> k, value |-> call.processes.value],
          diskUsage |-> [call |-> k, value |-> call.disk.value],
          loading |-> FALSE,
          error |-> dashboard.error,
          lastUpdate |-> k]
    ELSE [dashboard EXCEPT !.error = "Failed to fetch system information", !.loading = FALSE]

\* the reply to request r of call k arrives; when this settles Promise.all
\* of a call still awaiting it, the call continues in the same task
Settle(k, r, reply) ==
    /\ k \in DOMAIN calls
    /\ calls[k][r].state = "pending"
    /\ LET call == [calls[k] EXCEPT ![r] = reply]
           resumes == calls[k].outcome = "awaiting" /\ PromiseAll(call) # "pending"
       IN  /\ calls' = [calls EXCEPT ![k] =
                          IF resumes
                          THEN [call EXCEPT !.outcome =
                                   IF PromiseAll(call) = "fulfilled" THEN "applied" ELSE "failed"]
                          ELSE call]
           /\ dashboard' = IF resumes THEN Continue(k, call) ELSE dashboard
    /\ UNCHANGED <<main, monitor>>

\* get-detailed-system-info has no await: its reply leaves the main process
\* in the task that received the request
DetailedSettles ==
    \E k \in DOMAIN calls, reply \in DetailedReplies : Settle(k, "detailed", reply)

\* get-processes answers once its child process has ended, which is after
\* the reply of the request sent before it
ProcessesSettles ==
    \E k \in DOMAIN calls, reply \in ProcessesReplies :
        calls[k].detailed.state # "pending" /\ Settle(k, "processes", reply)

DiskSettles ==
    \E k \in DOMAIN calls, reply \in DiskReplies :
        calls[k].detailed.state # "pending" /\ Settle(k, "disk", reply)

NextDashboard ==
    \/ IntervalTick
    \/ ClickRefresh
    \/ DetailedSettles
    \/ ProcessesSettles
    \/ DiskSettles

SpecDashboard == Init /\ [][NextDashboard]_vars

---------------------------------------------------------------------------
(* The renderer: the window shows the dashboard or the monitor *)

\* the component the window renders runs its effect and its handlers; the
\* other one is not mounted and keeps its initial state
NextRenderer ==
    \/ monitor.calls = <<>> /\ NextDashboard
    \/ calls = <<>> /\ NextMonitor

SpecRenderer == Init /\ [][NextRenderer]_vars

\* every invoke() of a started fetch settles: the main process answers each
\* request, with a value or with an error
Settling ==
    /\ WF_vars(DetailedSettles)
    /\ WF_vars(ProcessesSettles)
    /\ WF_vars(DiskSettles)
    /\ WF_vars(StatsSettles)

SpecRendererSettling == SpecRenderer /\ Settling

---------------------------------------------------------------------------
(* Specifications of the main process *)

NextProcesses ==
    \/ GetProcesses
    \/ \E chunk \in PsChunks \union CsvChunks : ExecData(chunk)
    \/ ExecResolves
    \/ ExecRejects
    \/ Reply

SpecProcesses == Init /\ [][NextProcesses]_vars

NextDisk ==
    \/ GetDiskUsage
    \/ \E chunk \in DfChunks \union WmicChunks : ExecData(chunk)
    \/ ExecResolves
    \/ ExecRejects
    \/ Reply

SpecDisk == Init /\ [][NextDisk]_vars

NextCpu ==
    \/ GetCpuUsage
    \/ GetSystemStats
    \/ Reply

SpecCpu == Init /\ [][NextCpu]_vars

NextUptime ==
    \/ GetSystemUptime
    \/ GetSystemUptimeThrows
    \/ Reply

SpecUptime == Init /\ [][NextUptime]_vars

\* the two handlers that run an external command
NextCommands ==
    \/ GetProcesses
    \/ GetDiskUsage
    \/ \E chunk \in PsChunks \union CsvChunks \union DfChunks \union WmicChunks : ExecData(chunk)
    \/ ExecResolves
    \/ ExecRejects
    \/ Reply

SpecCommands == Init /\ [][NextCommands]_vars

\* a value of process.platform that names neither Windows nor a Unix system
OtherPlatforms == {"haiku"}

\* the two command handlers on a host of any family
InitAnyHost ==
    /\ platform \in Platforms \union OtherPlatforms
    /\ pc = "idle"
    /\ channel = "none"
    /\ command = ""
    /\ parseFunction = "none"
    /\ nchunks = 0
    /\ stdout = <<>>
    /\ cpus = <<>>
    /\ uptime = 0
    /\ result = NoResult
    /\ spawned = 0
    /\ calls = <<>>
    /\ dashboard = InitialDashboard
    /\ monitor = InitialMonitor

SpecAnyHost == InitAnyHost /\ [][NextCommands]_vars

NextInfo ==
    \/ GetDetailedSystemInfo
    \/ GetDetailedSystemInfoThrows
    \/ Reply

SpecInfo == Init /\ [][NextInfo]_vars

\* every handler of the main process
NextMain ==
    \/ GetProcesses
    \/ GetDiskUsage
    \/ \E chunk \in PsChunks \union CsvChunks \union DfChunks \union WmicChunks : ExecData(chunk)
    \/ ExecResolves
    \/ ExecRejects
    \/ GetCpuUsage
    \/ GetSystemStats
    \/ GetSystemUptime
    \/ GetSystemUptimeThrows
    \/ GetDetailedSystemInfo
    \/ GetDetailedSystemInfoThrows
    \/ Reply

SpecMain == Init /\ [][NextMain]_vars

---------------------------------------------------------------------------
(* Properties of get-processes *)

\* the lines of the text the command wrote
RawLines == splitChar(stdout, NewLine)

ProcessesReturned == pc = "returned" /\ channel = "get-processes"

\* the pid field of a line as each rule reads it
PidFieldOf(line) ==
    IF parseFunction = "win32" THEN stripQuotes(At(split(line, CommaQuote), 1))
    ELSE At(splitWs(trim(line)), 1)

\* the line is blank, or its pid field is missing, no number, zero or negative
BadPid(line) ==
    \/ trim(line) = <<>>
    \/ LET r == parseInt(PidFieldOf(line)) IN r.nan \/ r.val <= 0

GoodPid(line) == ~BadPid(line)

\* the record each rule makes of a line
RecordOf(line) == IF parseFunction = "win32" THEN MapCsvLine(line) ELSE MapPsLine(line)

\* x >= y on the fractions the model keeps numbers as
FracGE(x, y) == x.num * y.den >= y.num * x.den

FracGT(x, y) == x.num * y.den > y.num * x.den

Count(seq, x) == Cardinality({i \in DOMAIN seq : seq[i] = x})

Always(x) == TRUE

\* the records of a sequence of lines, one for one
RecordsOf(lines) == SelectSeq([i \in 1..Len(lines) |-> RecordOf(lines[i])], Always)

\* C1: under both parsing rules every record get-processes returns has
\* pid > 0, and no record is made of a line whose pid field is missing,
\* non-numeric, zero or negative.
C1_PidPositive ==
    ProcessesReturned =>
        LET Bad == RecordsOf(SelectSeq(RawLines, LAMBDA l : trim(l) # <<>> /\ BadPid(l)))
        IN  /\ \A i \in DOMAIN result : result[i].pid > 0
            /\ \A j \in DOMAIN Bad : \A i \in DOMAIN result : result[i] # Bad[j]

\* C1 witness: a listing with bad-pid lines (the idle process of pid 0 among
\* them) of which some records are returned all the same
C1_Witness ==
    /\ ProcessesReturned
    /\ parseFunction = "win32"
    /\ result # <<>>
    /\ SelectSeq(RawLines, LAMBDA l : trim(l) # <<>> /\ BadPid(l)) # <<>>

\* C2: get-processes returns at most 50 records whatever the number of lines,
\* and no record when the command fails.
C2_AtMostFifty ==
    (channel = "get-processes" /\ pc \in {"returned", "failed"}) =>
        /\ Len(result) <= 50
        /\ pc = "failed" => Len(result) = 0

\* C2 witness: more than 50 lines with a good pid were written and 50 records
\* are returned
C2_Witness ==
    /\ ProcessesReturned
    /\ Len(result) = 50
    /\ Len(SelectSeq(RawLines, GoodPid)) > 50

\* the records of the lines with a good pid, in the order of the lines
ValidRecords == RecordsOf(SelectSeq(RawLines, GoodPid))

\* place of the k-th valid record in the stable descending order by cpu
StableRank(V, k) ==
    Cardinality({j \in DOMAIN V : FracGT(V[j].cpu, V[k].cpu)})
    + Cardinality({j \in 1..(k - 1) : V[j].cpu = V[k].cpu}) + 1

\* C3: POSIX rule: cpu is non-increasing from one returned record to the
\* next, and records of equal cpu keep the relative order of their lines.
C3_SortedStable ==
    (ProcessesReturned /\ parseFunction = "posix") =>
        LET V == ValidRecords
        IN  /\ \A i \in 1..(Len(result) - 1) : FracGE(result[i].cpu, result[i + 1].cpu)
            /\ \A k \in DOMAIN V :
                  LET r == StableRank(V, k) IN r <= Len(result) => result[r] = V[k]

\* C3 witness: the sort moved a record, and two different records of equal
\* cpu are returned next to each other
C3_Witness ==
    /\ ProcessesReturned
    /\ parseFunction = "posix"
    /\ \E i \in 1..(Len(result) - 1) :
          result[i].cpu = result[i + 1].cpu /\ result[i].pid # result[i + 1].pid
    /\ LET V == ValidRecords IN \E i \in DOMAIN result : result[i] # V[i]

\* C4: POSIX rule: the cut to 50 comes after the bad pids are dropped and
\* after the sort: 50 records are returned when there are that many valid
\* ones, and every valid record that is not returned has a cpu no greater
\* than that of every returned record.
C4_TopFifty ==
    (ProcessesReturned /\ parseFunction = "posix") =>
        LET V == ValidRecords
        IN  /\ Len(result) = (IF Len(V) < 50 THEN Len(V) ELSE 50)
            /\ \A i \in DOMAIN result : Count(result, result[i]) <= Count(V, result[i])
            /\ \A k \in DOMAIN V :
                  Count(result, V[k]) < Count(V, V[k])
                      => \A i \in DOMAIN result : FracGE(result[i].cpu, V[k].cpu)

\* C4 witness: more than 50 valid records, and a record of a line after the
\* 50th valid one is returned while an earlier one is not
C4_Witness ==
    /\ ProcessesReturned
    /\ parseFunction = "posix"
    /\ LET V == ValidRecords
       IN  /\ Len(V) > 50
           /\ \E k \in 51..Len(V) : Count(result, V[k]) > 0
           /\ \E k \in 1..50 : Count(result, V[k]) = 0

\* Windows: the lines that are not blank, hold no header marker and have a
\* good pid, in the order of the text
ValidCsvLines ==
    SelectSeq(RawLines, LAMBDA l : ~includes(l, QuotedImageName) /\ GoodPid(l))

\* C5: Windows rule: the records returned are the first 50 (or fewer) valid
\* lines of the text, in the order of the lines.
C5_InputOrder ==
    (ProcessesReturned /\ parseFunction = "win32") =>
        LET V == RecordsOf(ValidCsvLines)
        IN  /\ Len(result) = (IF Len(V) < 50 THEN Len(V) ELSE 50)
            /\ \A i \in DOMAIN result : result[i] = V[i]

\* C5 witness: more than 50 valid lines after a line that is dropped
C5_Witness ==
    /\ ProcessesReturned
    /\ parseFunction = "win32"
    /\ Len(ValidCsvLines) > 50
    /\ BadPid(RawLines[1])
    /\ Len(result) = 50

\* the fields of a CSV line, quote characters stripped
CsvFields(line) ==
    LET raw == split(line, CommaQuote)
    IN  SelectSeq([i \in 1..Len(raw) |-> stripQuotes(raw[i])], Always)

\* a text of decimal digits with no leading zero
IsDecimal(t) ==
    /\ t # <<>>
    /\ \A i \in DOMAIN t : IsDigit(t[i], 10)
    /\ (Len(t) > 1 => t[1] # "0")

ChromeRecord ==
    [name |-> <<"c", "h", "r", "o", "m", "e", ".", "e", "x", "e">>,
     pid |-> 1234,
     memory |-> <<"5", "0", ",", "0", "0", "0", " ", "K">>,
     cpu |-> <<"N", "/", "A">>]

\* C6: Windows rule: a line of five quoted fields gives a record with name
\* field 0, pid the integer of field 1 and memory field 4, quote characters
\* stripped; cpu is the same non-numeric sentinel in every record.
C6_CsvFields ==
    (ProcessesReturned /\ parseFunction = "win32") =>
        LET V == ValidCsvLines
        IN  /\ \A i \in DOMAIN result :
                  result[i].cpu = NotAvailable /\ parseFloat(result[i].cpu).nan
            /\ \A i \in DOMAIN result :
                  LET f == CsvFields(V[i])
                  IN  Len(f) = 5 =>
                          /\ result[i].name = f[1]
                          /\ IsDecimal(f[2]) => NumberToString(result[i].pid) = f[2]
                          /\ result[i].memory = f[5]
                          /\ \A n \in DOMAIN result[i].name : result[i].name[n] # "\""
                          /\ \A n \in DOMAIN result[i].memory : result[i].memory[n] # "\""
            /\ (V # <<>> /\ V[1] = SubSeq(CsvLineChrome, 1, Len(CsvLineChrome) - 1))
                  => result[1] = ChromeRecord

\* C6 witness: the chrome.exe line of five fields is the first valid line of
\* the text and other records follow it
C6_Witness ==
    /\ ProcessesReturned
    /\ parseFunction = "win32"
    /\ Len(stdout) >= Len(CsvLineChrome)
    /\ SubSeq(stdout, 1, Len(CsvLineChrome)) = CsvLineChrome
    /\ Len(result) > 1
    /\ result[1] = ChromeRecord

---------------------------------------------------------------------------
(* Properties of get-system-uptime *)

UptimeReturned == pc = "returned" /\ channel = "get-system-uptime"

\* the text t is the decimal numeral of v followed by the unit letter
Component(t, unit, v) ==
    /\ Len(t) >= 2
    /\ t[Len(t)] = unit
    /\ IsDecimal(SubSeq(t, 1, Len(t) - 1))
    /\ parseInt(SubSeq(t, 1, Len(t) - 1)).val = v

\* the text is its n components joined by single spaces
SingleSpaced(out, tok) ==
    /\ \A i \in DOMAIN out : out[i] \in WhiteSpace => out[i] = " "
    /\ Cardinality({i \in DOMAIN out : out[i] = " "}) = Len(tok) - 1

\* C7: for every non-negative number of seconds s, formatUptime(s) is
\* "{d}d {h}h {m}m" when d > 0, else "{h}h {m}m" when h > 0, else "{m}m",
\* with d = floor(s/86400), h = floor((s mod 86400)/3600) and
\* m = floor((s mod 3600)/60); formatUptime(0) = "0m",
\* formatUptime(3661) = "1h 1m", formatUptime(90061) = "1d 1h 1m".
C7_FormatUptime ==
    UptimeReturned =>
        LET s == uptime
            d == s \div 86400
            h == (s % 86400) \div 3600
            m == (s % 3600) \div 60
            out == result.formattedUptime
            tok == splitWs(out)
        IN  /\ SingleSpaced(out, tok)
            /\ d > 0 => /\ Len(tok) = 3
                        /\ Component(tok[1], "d", d)
                        /\ Component(tok[2], "h", h)
                        /\ Component(tok[3], "m", m)
            /\ (d = 0 /\ h > 0) => /\ Len(tok) = 2
                                   /\ Component(tok[1], "h", h)
                                   /\ Component(tok[2], "m", m)
            /\ (d = 0 /\ h = 0) => /\ Len(tok) = 1
                                   /\ Component(tok[1], "m", m)
            /\ s = 0 => out = <<"0", "m">>
            /\ s = 3661 => out = <<"1", "h", " ", "1", "m">>
            /\ s = 90061 => out = <<"1", "d", " ", "1", "h", " ", "1", "m">>

\* C7 witness: an uptime of 90061 seconds is formatted with its three components
C7_Witness ==
    /\ UptimeReturned
    /\ uptime = 90061
    /\ result.formattedUptime = <<"1", "d", " ", "1", "h", " ", "1", "m">>

---------------------------------------------------------------------------
(* Properties of get-cpu-usage and get-system-stats *)

CpuReturned == pc = "returned" /\ channel = "get-cpu-usage"

StatsReturned == pc = "returned" /\ channel = "get-system-stats"

\* the ticks of one core
CoreTicks(cpu) == cpu.user + cpu.nice + cpu.sys + cpu.idle + cpu.irq

\* the ticks of the first n cores of the snapshot
RECURSIVE TicksUpTo(_, _)
TicksUpTo(cs, n) == IF n = 0 THEN 0 ELSE TicksUpTo(cs, n - 1) + CoreTicks(cs[n])

RECURSIVE IdleUpTo(_, _)
IdleUpTo(cs, n) == IF n = 0 THEN 0 ELSE IdleUpTo(cs, n - 1) + cs[n].idle

\* C8: when every core's idle counter is that core's total ticks (and the
\* total is above 0) get-cpu-usage yields percent 0; when every core's idle
\* counter is 0 (and the total is above 0) it yields percent 100.
C8_IdleAndBusy ==
    (CpuReturned /\ TicksUpTo(cpus, Len(cpus)) > 0) =>
        /\ (\A i \in DOMAIN cpus : cpus[i].idle = CoreTicks(cpus[i]))
              => result.usage = [num |-> 0, den |-> 1]
        /\ (\A i \in DOMAIN cpus : cpus[i].idle = 0)
              => result.usage = [num |-> 100, den |-> 1]

\* C8 witness: two cores, both with idle ticks only
C8_Witness ==
    /\ CpuReturned
    /\ Len(cpus) = 2
    /\ \A i \in DOMAIN cpus : cpus[i].idle > 0 /\ cpus[i].idle = CoreTicks(cpus[i])
    /\ result.usage = [num |-> 0, den |-> 1]

\* the cpu part of the value returned
CpuPart == IF channel = "get-system-stats" THEN result.cpu ELSE result

\* C9: for every snapshot of non-negative counters the host can return, the
\* percent of get-cpu-usage and of the cpu part of get-system-stats is the
\* number (totalTicks - totalIdle)/totalTicks*100, within 0 to 100, and
\* coreCount is a positive integer, the number of cores of the snapshot.
C9_PercentInRange ==
    (CpuReturned \/ StatsReturned) =>
        LET total == TicksUpTo(cpus, Len(cpus))
            idle == IdleUpTo(cpus, Len(cpus))
            u == CpuPart.usage
        IN  /\ u.den > 0
            /\ u.num * total = (total - idle) * 100 * u.den
            /\ 0 <= u.num /\ u.num <= 100 * u.den
            /\ CpuPart.cores = Len(cpus)
            /\ CpuPart.cores > 0

---------------------------------------------------------------------------
(* Properties of get-disk-usage *)

DfReturned == pc = "returned" /\ channel = "get-disk-usage" /\ parseFunction = "posix"

\* a text with its trailing '%' removed, if it ends in one
StripTrailingPercent(t) ==
    IF t # <<>> /\ t[Len(t)] = "%" THEN SubSeq(t, 1, Len(t) - 1) ELSE t

SdaRecord ==
    [filesystem |-> <<"/", "d", "e", "v", "/", "s", "d", "a", "1">>,
     size |-> <<"1", "0", "0", "G">>,
     used |-> <<"5", "0", "G">>,
     available |-> <<"5", "0", "G">>,
     usePercent |-> 50,
     mounted |-> <<"/">>]

\* C10: POSIX disk rule: each non-blank, non-header line is split on runs of
\* white space and mapped by position to filesystem (0), size (1), used (2),
\* available (3), usePercent (4) and mounted (5); usePercent is field 4 with
\* the trailing '%' removed, parsed as an integer, and 0 when the field is
\* absent or no number; "/dev/sda1  100G   50G   50G   50% /" gives
\* usePercent 50 and mounted "/".
C10_DfFields ==
    DfReturned =>
        LET L == SelectSeq(RawLines, LAMBDA l : trim(l) # <<>> /\ ~includes(l, Filesystem))
        IN  /\ Len(result) = Len(L)
            /\ \A i \in DOMAIN result :
                  LET f == splitWs(trim(L[i]))
                      p == StripTrailingPercent(At(f, 4))
                      r == result[i]
                  IN  /\ r.filesystem = At(f, 0)
                      /\ r.size = At(f, 1)
                      /\ r.used = At(f, 2)
                      /\ r.available = At(f, 3)
                      /\ r.mounted = At(f, 5)
                      /\ r.usePercent = IntOrZero(parseInt(p))
                      /\ IsDecimal(p) => NumberToString(r.usePercent) = p
                      /\ (p = <<>> \/ ~IsDigit(p[1], 10)) => r.usePercent = 0
            /\ (L # <<>> /\ L[1] = SubSeq(DfLineSda, 1, Len(DfLineSda) - 1))
                  => result[1] = SdaRecord

\* C10 witness: the /dev/sda1 line is parsed to its record, and a row with no
\* percentage column follows it
C10_Witness ==
    /\ DfReturned
    /\ Len(result) >= 2
    /\ result[1] = SdaRecord
    /\ \E i \in DOMAIN result : result[i].available = <<>> /\ result[i].usePercent = 0

WmicReturned == pc = "returned" /\ channel = "get-disk-usage" /\ parseFunction = "win32"

\* C11: Windows disk rule: for every retained line with the fields caption,
\* freeSpace and size, in that column order, the record has available =
\* freeSpace, used = size - freeSpace (so used + available = size),
\* usePercent = used / size * 100 when size > 0 and 0 when size = 0, and
\* filesystem = mounted = caption.
C11_WmicFields ==
    WmicReturned =>
        LET L == SelectSeq(RawLines, LAMBDA l : trim(l) # <<>> /\ ~includes(l, Caption))
        IN  /\ Len(result) = Len(L)
            /\ \A i \in DOMAIN result :
                  LET f == splitWs(trim(L[i]))
                      r == result[i]
                  IN  (Len(f) = 3 /\ IsDecimal(f[2]) /\ IsDecimal(f[3])) =>
                          /\ r.filesystem = f[1]
                          /\ r.mounted = f[1]
                          /\ NumberToString(r.available) = f[2]
                          /\ NumberToString(r.size) = f[3]
                          /\ r.used + r.available = r.size
                          /\ r.size > 0 =>
                                /\ r.usePercent.den > 0
                                /\ r.usePercent.num * r.size = r.used * 100 * r.usePercent.den
                          /\ r.size = 0 => r.usePercent = [num |-> 0, den |-> 1]

\* C11 witness: a volume with 1000 free of 4000 is reported 75 percent used,
\* next to a volume of size 0
C11_Witness ==
    /\ WmicReturned
    /\ \E i \in DOMAIN result :
          /\ result[i].filesystem = <<"C", ":">>
          /\ result[i].available = 1000 /\ result[i].used = 3000
          /\ result[i].usePercent = [num |-> 75, den |-> 1]
    /\ \E i \in DOMAIN result :
          /\ result[i].filesystem = <<"F", ":">>
          /\ result[i].size = 0 /\ result[i].usePercent = [num |-> 0, den |-> 1]

DiskReturned == pc = "returned" /\ channel = "get-disk-usage"

\* usePercent of a record as a fraction: the POSIX rule gives an integer, the
\* Windows rule a quotient
PercentOf(r) ==
    IF parseFunction = "posix" THEN [num |-> r.usePercent, den |-> 1] ELSE r.usePercent

\* C12: every record returned by get-disk-usage, under either parsing rule
\* and for every raw text (malformed rows, a free space larger than the size
\* or a percentage column above 100 included), has a usePercent that is an
\* integer between 0 and 100 inclusive.
C12_UsePercentRange ==
    DiskReturned =>
        \A i \in DOMAIN result :
            LET p == PercentOf(result[i])
            IN  p.den = 1 /\ 0 <= p.num /\ p.num <= 100

---------------------------------------------------------------------------
(* Properties of the header filters *)

ImageName ==
    <<"I","m","a","g","e"," ","N","a","m","e">>

\* lines joined by line feeds
RECURSIVE JoinRange(_, _, _)
JoinRange(lines, lo, hi) ==
    IF lo > hi THEN <<>>
    ELSE IF lo = hi THEN lines[lo]
    ELSE LET mid == (lo + hi) \div 2
         IN  JoinRange(lines, lo, mid) \o <<NewLine>> \o JoinRange(lines, mid + 1, hi)

\* a text without its lines that contain the marker
WithoutLines(text, marker) ==
    LET kept == SelectSeq(splitChar(text, NewLine), LAMBDA l : ~includes(l, marker))
    IN  JoinRange(kept, 1, Len(kept))

ExecReturned == pc = "returned" /\ channel \in {"get-processes", "get-disk-usage"}

\* C13, as stated: a line of the raw text that contains the header marker of
\* its parser (Filesystem for the POSIX disk rule, Caption for the Windows
\* disk rule, Image Name for the Windows process rule) never produces a
\* record: the parsed output is that of the text without those lines.
C13_HeaderExcluded ==
    ExecReturned =>
        /\ (channel = "get-disk-usage" /\ parseFunction = "posix")
              => result = ParseDiskPosix(WithoutLines(stdout, Filesystem))
        /\ (channel = "get-disk-usage" /\ parseFunction = "win32")
              => result = ParseDiskWin32(WithoutLines(stdout, Caption))
        /\ (channel = "get-processes" /\ parseFunction = "win32")
              => result = ParseProcessesWin32(WithoutLines(stdout, ImageName))

\* C13, amended: the same, the marker of the Windows process rule being the
\* words Image Name enclosed in double quotes, as the first field of the
\* header of the CSV form is written.
C13_HeaderExcludedQuoted ==
    ExecReturned =>
        /\ (channel = "get-disk-usage" /\ parseFunction = "posix")
              => result = ParseDiskPosix(WithoutLines(stdout, Filesystem))
        /\ (channel = "get-disk-usage" /\ parseFunction = "win32")
              => result = ParseDiskWin32(WithoutLines(stdout, Caption))
        /\ (channel = "get-processes" /\ parseFunction = "win32")
              => result = ParseProcessesWin32(WithoutLines(stdout, QuotedImageName))

\* C13 witness: the df header comes after a data line, and the data line
\* alone is returned
C13_Witness ==
    /\ ExecReturned
    /\ channel = "get-disk-usage" /\ parseFunction = "posix"
    /\ stdout = DfLineSda \o DfHeader
    /\ Len(result) = 1
    /\ result[1].filesystem = <<"/", "d", "e", "v", "/", "s", "d", "a", "1">>

---------------------------------------------------------------------------
(* Properties of the failure paths *)

\* C15: when the external command of get-processes or get-disk-usage fails
\* to spawn or exits non-zero, the handler resolves with an empty collection;
\* the failure is never passed on to the caller as a rejected request.
C15_FailureGivesEmpty ==
    channel \in {"get-processes", "get-disk-usage"} =>
        /\ pc # "rejected"
        /\ pc = "failed" => result = <<>>

\* C15 witness: the command wrote part of its output and then failed, and
\* the handler resolved with the empty collection
C15_Witness ==
    /\ channel \in {"get-processes", "get-disk-usage"}
    /\ pc = "failed"
    /\ stdout # <<>>
    /\ result = <<>>

\* C16: every operation of the request surface resolves with a value
\* whenever a host query or command it uses fails; no request ends in a
\* fault delivered to the caller.
C16_NeverFaults ==
    pc # "rejected"

---------------------------------------------------------------------------
(* Properties of the dashboard's batch of requests *)

AllSettled(call) == \A r \in Requests : call[r].state # "pending"

\* C17: when the dashboard issues its batch of requests, a failure of one
\* neither cancels nor corrupts the others: every sibling request that
\* succeeds has its result delivered to and used by the caller, in every
\* interleaving of completions.
C17_SiblingsUsed ==
    \A k \in DOMAIN calls :
        (AllSettled(calls[k]) /\ \E r \in Requests : calls[k][r].state = "resolved")
            => calls[k].outcome = "applied"

---------------------------------------------------------------------------
(* Properties of the platform dispatch *)

\* the request being run uses the Windows command and the Windows parser
WindowsPair ==
    /\ channel = "get-processes" => command = "tasklist /FO CSV /NH"
    /\ channel = "get-disk-usage" => command = "wmic logicaldisk get size,freespace,caption"
    /\ parseFunction = "win32"

\* the request being run uses the POSIX command and the POSIX parser
PosixPair ==
    /\ channel = "get-processes" => command = "ps aux --no-headers"
    /\ channel = "get-disk-usage" => command = "df -h"
    /\ parseFunction = "posix"

\* C18: for each metric kind the (command, parser) pair used is the same in
\* every request over the whole process lifetime: whatever the requests and
\* failures, either every request uses the Windows pair or every request
\* uses the POSIX pair, and none mixes the command of one platform with the
\* parser of the other.
C18_OnePairForever ==
    \/ [](command # "" => WindowsPair)
    \/ [](command # "" => PosixPair)

\* C18 witness: a disk request that failed after a process request, both with
\* the pair of the platform
C18_Witness ==
    /\ pc = "failed"
    /\ channel = "get-disk-usage"
    /\ command = "df -h" /\ parseFunction = "posix"
    /\ platform = "darwin"

\* C19: on a host whose OS family is neither of the two supported ones,
\* get-processes and get-disk-usage fail with a distinct "unsupported
\* platform" error: they do not fall back to the command and parser of a
\* default platform, and the outcome is not the empty collection of a
\* transient failure nor a listing.
C19_UnsupportedPlatform ==
    (platform \in OtherPlatforms /\ channel \in {"get-processes", "get-disk-usage"}) =>
        /\ command = ""
        /\ parseFunction = "none"
        /\ pc \notin {"returned", "failed"}

---------------------------------------------------------------------------
(* Properties of the external processes *)

\* C20: each get-processes or get-disk-usage request spawns exactly one
\* external process and does not spawn it again when it fails; get-cpu-usage,
\* get-system-uptime and get-detailed-system-info spawn none.
C20_OneSpawn ==
    /\ channel \in {"get-processes", "get-disk-usage"} => spawned = 1
    /\ channel \in {"get-cpu-usage", "get-system-uptime", "get-detailed-system-info"}
          => spawned = 0

\* C20 witness: a request whose command failed has spawned one process
C20_Witness ==
    /\ channel = "get-disk-usage"
    /\ pc = "failed"
    /\ spawned = 1

---------------------------------------------------------------------------
(* Properties of the request lifecycle *)

---------------------------------------------------------------------------
(* Properties of the POSIX process rule *)

PsReturned == ProcessesReturned /\ parseFunction = "posix"

\* a field that is absent or does not begin as a number does
NoNumber(t) == t = <<>> \/ t[1] \notin {DecDigits[i] : i \in 1..10} \union {"+", "-", ".", "I"}

\* a text of the form digits.digits
IsPlainDecimal(t) ==
    /\ Cardinality({i \in DOMAIN t : t[i] = "."}) = 1
    /\ t[1] # "." /\ t[Len(t)] # "."
    /\ \A i \in DOMAIN t : t[i] = "." \/ IsDigit(t[i], 10)

\* the fraction q is the number the text digits.digits writes
IsValueOf(q, t) ==
    LET dot == CHOOSE i \in DOMAIN t : t[i] = "."
        digits == SubSeq(t, 1, dot - 1) \o SubSeq(t, dot + 1, Len(t))
    IN  q.den > 0 /\ q.num * Pow(10, Len(t) - dot) = q.den * DigitsValue(digits, Len(digits), 10)

\* the record r is the reading by fixed index of the fields f of a line
ReadsByIndex(r, f) ==
    /\ r.name = (IF Len(f) >= 11 THEN f[11] ELSE f[1])
    /\ r.pid = IntOrZero(parseInt(At(f, 1)))
    /\ r.cpu = FloatOrZero(parseFloat(At(f, 2)))
    /\ r.memory = FloatOrZero(parseFloat(At(f, 3)))
    /\ r.vsz = IntOrZero(parseInt(At(f, 4)))
    /\ r.rss = IntOrZero(parseInt(At(f, 5)))
    /\ r.tty = At(f, 6) /\ r.stat = At(f, 7) /\ r.start = At(f, 8) /\ r.time = At(f, 9)
    /\ IsDecimal(At(f, 1)) => NumberToString(r.pid) = At(f, 1)
    /\ IsDecimal(At(f, 4)) => NumberToString(r.vsz) = At(f, 4)
    /\ IsDecimal(At(f, 5)) => NumberToString(r.rss) = At(f, 5)
    /\ IsPlainDecimal(At(f, 2)) => IsValueOf(r.cpu, At(f, 2))
    /\ IsPlainDecimal(At(f, 3)) => IsValueOf(r.memory, At(f, 3))
    /\ NoNumber(At(f, 2)) => r.cpu = [num |-> 0, den |-> 1]
    /\ NoNumber(At(f, 3)) => r.memory = [num |-> 0, den |-> 1]
    /\ NoNumber(At(f, 4)) => r.vsz = 0
    /\ NoNumber(At(f, 5)) => r.rss = 0
    /\ r.cpu # NaN /\ r.memory # NaN

\* C22: POSIX process rule: the fields of every non-blank line are mapped by
\* fixed index (pid 1, cpu 2, mem 3, vsz 4, rss 5, tty 6, stat 7, start 8,
\* time 9, name 10); name is field 10 when present and field 0 otherwise;
\* every numeric field that is absent or no number is 0, never undefined or
\* not-a-number. Every record returned is such a reading of a line, and every
\* line with a pid above 0 has its reading returned unless the listing is
\* truncated.
C22_PsFields ==
    PsReturned =>
        LET L == SelectSeq(RawLines, LAMBDA l : trim(l) # <<>>)
            F == Array([i \in 1..Len(L) |-> splitWs(trim(L[i]))])
            V == {i \in 1..Len(F) : IntOrZero(parseInt(At(F[i], 1))) > 0}
        IN  /\ \A j \in DOMAIN result : \E i \in V : ReadsByIndex(result[j], F[i])
            /\ Cardinality(V) <= 50 =>
                  \A i \in V : \E j \in DOMAIN result : ReadsByIndex(result[j], F[i])

\* C22 witness: a line with no command field, a pid with trailing letters, a
\* memory field that is no number and no vsz field is returned with name z,
\* pid 12 and zeros
C22_Witness ==
    /\ PsReturned
    /\ \E j \in DOMAIN result :
          /\ result[j].name = <<"z">>
          /\ result[j].pid = 12
          /\ result[j].cpu = [num |-> 7, den |-> 1]
          /\ result[j].memory = [num |-> 0, den |-> 1]
          /\ result[j].vsz = 0
    /\ \E j \in DOMAIN result : result[j].name = <<"n", "o", "d", "e">>

---------------------------------------------------------------------------
(* Properties of malformed rows *)

\* the lines of the text that are not blank and do not hold the marker
DataLines(marker) ==
    SelectSeq(RawLines, LAMBDA l : trim(l) # <<>> /\ ~includes(l, marker))

\* C23: malformed rows are mapped, not dropped: under both disk rules the
\* output has exactly one record per non-blank, non-header line, in input
\* order, whatever the number of fields of the line; under the process rules
\* a non-blank, non-header line is dropped only when its pid is not above 0,
\* or by the truncation to 50 records.
C23_BestEffort ==
    ExecReturned =>
        /\ channel = "get-disk-usage" =>
              LET L == DataLines(IF parseFunction = "win32" THEN Caption ELSE Filesystem)
              IN  /\ Len(result) = Len(L)
                  /\ \A i \in DOMAIN result :
                        result[i].filesystem = At(splitWs(trim(L[i])), 0)
        /\ channel = "get-processes" =>
              LET L == IF parseFunction = "win32" THEN DataLines(QuotedImageName)
                       ELSE SelectSeq(RawLines, LAMBDA l : trim(l) # <<>>)
                  kept == Len(SelectSeq(L, LAMBDA l : IntOrZero(parseInt(PidFieldOf(l))) > 0))
              IN  Len(result) = IF kept < 50 THEN kept ELSE 50

\* C23 witness: a wmic line with the caption alone gives a record, between
\* the records of two complete lines
C23_Witness ==
    /\ ExecReturned
    /\ channel = "get-disk-usage" /\ parseFunction = "win32"
    /\ \E i \in DOMAIN result :
          /\ result[i].filesystem = <<"D", ":">>
          /\ result[i].size = 0 /\ result[i].available = 0
    /\ \E i \in DOMAIN result : result[i].size = 4000

---------------------------------------------------------------------------
(* Properties of the monitor's status indicator *)

StatusRank(status) == IF status = "Good" THEN 1 ELSE IF status = "Moderate" THEN 2 ELSE 3

\* usage >= n on a number, false for NaN
AtLeast(usage, n) ==
    IF usage.den = 0 THEN usage.num > 0 ELSE usage.num >= n * usage.den

\* x <= y on two numbers that are not NaN
NoHigher(x, y) ==
    /\ x # NaN /\ y # NaN
    /\ SubSign(x, y) <= 0

\* the usage values get-system-stats can report
UsagesReported == {reply.value.cpu.usage : reply \in {r \in StatsReplies : r.state = "resolved"}}

\* C24: the CPU status indicator of the monitor is total and monotone in
\* usage: every usage value maps to exactly one of Good, Moderate and High,
\* Good for usage < 50, Moderate for 50 <= usage < 80, High for usage >= 80,
\* and a higher usage never yields a milder status.
C24_CpuStatus ==
    monitor.stats.call # 0 =>
        LET usage == monitor.stats.value.cpu.usage
        IN  /\ CpuStatusShown \in {"Good", "Moderate", "High"}
            /\ (usage # NaN /\ ~AtLeast(usage, 50)) => CpuStatusShown = "Good"
            /\ (AtLeast(usage, 50) /\ ~AtLeast(usage, 80)) => CpuStatusShown = "Moderate"
            /\ AtLeast(usage, 80) => CpuStatusShown = "High"
            /\ \A lower \in UsagesReported :
                  NoHigher(lower, usage) => StatusRank(getCpuStatus(lower)) <= StatusRank(CpuStatusShown)

\* C24 witness: the monitor shows Moderate for a usage of exactly 50
C24_Witness ==
    /\ monitor.stats.call # 0
    /\ monitor.stats.value.cpu.usage = [num |-> 50, den |-> 1]
    /\ CpuStatusShown = "Moderate"

---------------------------------------------------------------------------
(* Properties of the uptime components *)

\* the components of a formatted uptime that end in the unit letter
ComponentsOf(out, unit) ==
    SelectSeq(splitWs(out), LAMBDA t : Len(t) >= 2 /\ t[Len(t)] = unit)

\* the number a component writes before its unit letter
ComponentValue(t) == DigitsValue(t, Len(t) - 1, 10)

\* C25: for every non-negative number of seconds the components shown by
\* formatUptime are bounded: minutes is within 0..59 and hours, when shown,
\* within 0..23; the output has a day component exactly when seconds >=
\* 86400, and an hour component exactly when seconds >= 3600 or a day
\* component is shown.
C25_ComponentsBounded ==
    UptimeReturned =>
        LET out == result.formattedUptime
            days == ComponentsOf(out, "d")
            hours == ComponentsOf(out, "h")
            minutes == ComponentsOf(out, "m")
        IN  /\ Len(minutes) = 1
            /\ IsDecimal(SubSeq(minutes[1], 1, Len(minutes[1]) - 1))
            /\ ComponentValue(minutes[1]) \in 0..59
            /\ Len(hours) <= 1
            /\ \A i \in DOMAIN hours :
                  /\ IsDecimal(SubSeq(hours[i], 1, Len(hours[i]) - 1))
                  /\ ComponentValue(hours[i]) \in 0..23
            /\ Len(days) <= 1
            /\ Len(days) = 1 <=> uptime >= 86400
            /\ Len(hours) = 1 <=> (uptime >= 3600 \/ Len(days) = 1)

\* C25 witness: 400 days, 23 hours, 59 minutes and 59 seconds
C25_Witness ==
    /\ UptimeReturned
    /\ uptime = 400 * 86400 + 23 * 3600 + 59 * 60 + 59
    /\ result.formattedUptime =
          <<"4", "0", "0", "d", " ", "2", "3", "h", " ", "5", "9", "m">>

---------------------------------------------------------------------------
(* Properties of the dashboard's state *)

\* C26: in the dashboard the displayed detailedInfo, processes and diskUsage
\* always come from one and the same fetch batch: in every reachable state,
\* overlapping timer-driven and manual fetches completing in any order
\* included, the three are all initial or all the results of one
\* fetchAllData call.
C26_OneBatch ==
    /\ dashboard.processes.call = dashboard.detailedInfo.call
    /\ dashboard.diskUsage.call = dashboard.detailedInfo.call
    /\ dashboard.detailedInfo.call # 0 =>
          LET call == calls[dashboard.detailedInfo.call]
          IN  /\ dashboard.detailedInfo.value = call.detailed.value
              /\ dashboard.processes.value = call.processes.value
              /\ dashboard.diskUsage.value = call.disk.value
    /\ dashboard.detailedInfo.call = 0 =>
          /\ dashboard.detailedInfo.value = NoResult
          /\ dashboard.processes.value = <<>>
          /\ dashboard.diskUsage.value = <<>>

\* C26 witness: the second of two overlapping calls has completed before the
\* first, and its three results are displayed
C26_Witness ==
    /\ Len(calls) = 2
    /\ calls[1].outcome = "awaiting"
    /\ calls[2].outcome = "applied"
    /\ dashboard.detailedInfo.call = 2
    /\ dashboard.processes.value # <<>>

\* the data the dashboard displays
Displayed(d) == <<d.detailedInfo, d.processes, d.diskUsage, d.lastUpdate>>

\* C27: a fetchAllData call in which a request rejects leaves detailedInfo,
\* processes, diskUsage and lastUpdate unchanged and sets the error message;
\* the message is cleared when the next fetchAllData starts, and is never set
\* by a call whose requests all succeed.
C27_FailureFrame ==
    [][/\ \A k \in DOMAIN calls :
             (calls[k].outcome = "awaiting" /\ calls'[k].outcome = "failed") =>
                 /\ Displayed(dashboard') = Displayed(dashboard)
                 /\ dashboard'.error = "Failed to fetch system information"
       /\ Len(calls') > Len(calls) => dashboard'.error = ""
       /\ \A k \in DOMAIN calls :
             (calls[k].outcome = "awaiting" /\ calls'[k].outcome = "applied") =>
                 dashboard'.error = dashboard.error
       /\ (dashboard'.error # "" /\ dashboard.error = "") =>
             \E k \in DOMAIN calls :
                 /\ calls[k].outcome = "awaiting" /\ calls'[k].outcome = "failed"
                 /\ \E r \in Requests : calls'[k][r].state = "rejected"
      ]_vars

\* C27 witness: a call has failed after an earlier call had succeeded: the
\* error message is shown over the data of the earlier call
C27_Witness ==
    /\ Len(calls) = 2
    /\ calls[1].outcome = "applied"
    /\ calls[2].outcome = "failed"
    /\ dashboard.error = "Failed to fetch system information"
    /\ dashboard.lastUpdate = 1
    /\ dashboard.processes.call = 1

\* C28: the loading flag is true in every state in which at least one
\* fetchAllData call is still in flight, overlapping fetches included, so
\* that the Refresh button is disabled whenever a fetch is outstanding.
C28_LoadingWhileInFlight ==
    (\E k \in DOMAIN calls : calls[k].outcome = "awaiting") => dashboard.loading

\* C29: displayed data are never replaced by the results of a fetch that
\* started earlier than the fetch whose results are displayed: the data
\* shown are never those of a call that started before a call whose results
\* have been displayed, so that after two overlapping calls have both
\* completed the data of the later-started call are shown.
C29_LatestShown ==
    \A k \in DOMAIN calls :
        calls[k].outcome = "applied" => dashboard.detailedInfo.call >= k

\* a fetch of the dashboard, or of the monitor, is in flight
DashboardInFlight == \E k \in DOMAIN calls : calls[k].outcome = "awaiting"

MonitorInFlight == \E k \in DOMAIN monitor.calls : monitor.calls[k] = "awaiting"

\* C30: in the dashboard and in the monitor every started fetch whose
\* requests all settle eventually sets loading back to false, on the success
\* path and on the failure path alike: loading is false whenever no fetch is
\* in flight, and a loading that is true leads to one that is false.
C30_LoadingEnds ==
    /\ [](~DashboardInFlight => ~dashboard.loading)
    /\ [](~MonitorInFlight => ~monitor.loading)
    /\ dashboard.loading ~> ~dashboard.loading
    /\ monitor.loading ~> ~monitor.loading

\* C30 witness: a fetch of the dashboard has ended on the failure path with
\* loading false again
C30_Witness ==
    /\ calls # <<>>
    /\ \A k \in DOMAIN calls : calls[k].outcome = "failed"
    /\ ~dashboard.loading
    /\ dashboard.error # ""

\* C30 witness in the monitor: one fetch has ended on the success path and one
\* on the failure path, with loading false again
C30_WitnessMonitor ==
    /\ Len(monitor.calls) = 2
    /\ monitor.calls[1] = "applied"
    /\ monitor.calls[2] = "failed"
    /\ ~monitor.loading

====
